---- MODULE Spec2Model ----
(***************************************************************************)
(* A model of the UML enhancement tool: the PlantUML parser, the knowledge *)
(* graph and its formal-context export, the FCA analyzer (external tool,   *)
(* fallback extraction, relevance scoring and filtering) and the pipeline  *)
(* that chains them.                                                       *)
(*                                                                         *)
(* Text is modelled as a sequence of one-character strings, so that the    *)
(* string operations of the source (strip, split, replace, startswith,     *)
(* substring test, regular-expression match, sort) are computed character  *)
(* by character as Python computes them.                                   *)
(***************************************************************************)
EXTENDS Integers, Sequences, FiniteSets, TLC

VARIABLES
    pc,             \* position of the running operation
    exc,            \* exception that left the operation, or "none"
    input,          \* how the input of the operation was put together
    lines,          \* input diagram text, split into lines
    idx,            \* number of lines consumed by parse()
    current_class,  \* parse(): the class block cursor
    classes,        \* PlantUMLParser.classes (insertion-ordered dict)
    relationships,  \* PlantUMLParser.relationships
    graph,          \* KnowledgeGraph.graph and KnowledgeGraph._node_counter
    context_file,   \* the formal context file written by export_for_fca
    tool,           \* what the external lattice tool did when analyze() ran it
    concepts,       \* FCAAnalyzer.concepts
    config,         \* PipelineConfig: min_relevance and min_extent_size
    relevant,       \* the list returned by filter_relevant_concepts
    abstract_classes, \* the AbstractClass objects of the run, in list order
    service,        \* LLMNamingService: provider and client
    named_classes,  \* batch_name_abstract_classes: the list being returned
    merged,         \* the list returned by _deduplicate_abstract_class_names
    output_lines,    \* PlantUMLGenerator.output_lines
    exported,       \* the named abstractions written by export_named_classes
    evaluations,    \* ConceptEvaluator.evaluations
    evaluation_csv, \* the rows written by export_evaluation_csv
    results,        \* the counts in the summary that run() returns
    run_no          \* how many times run() was called on the pipeline

\* the fields of the synthesis, naming and generation stages
synth_vars == <<config, relevant, abstract_classes, service, named_classes,
                merged, output_lines>>

eval_vars == <<exported, evaluations, evaluation_csv, results, run_no>>

vars == <<pc, exc, input, lines, idx, current_class, classes, relationships,
          graph, context_file, tool, concepts, synth_vars, eval_vars>>

\* the fields of the components behind the parser
later_vars == <<graph, context_file, tool, concepts, synth_vars, eval_vars>>

(***************************************************************************)
(* Python values                                                           *)
(***************************************************************************)

\* Python's None where a text is expected (no text is a one-element
\* sequence holding a four-character string).
None == <<"None">>

Lower == {"a","b","c","d","e","f","g","h","i","j","k","l","m",
          "n","o","p","q","r","s","t","u","v","w","x","y","z"}

Upper == {"A","B","C","D","E","F","G","H","I","J","K","L","M",
          "N","O","P","Q","R","S","T","U","V","W","X","Y","Z"}

Digit == {"0","1","2","3","4","5","6","7","8","9"}

\* the characters matched by \w in a regular expression
WordChar == Lower \cup Upper \cup Digit \cup {"_"}

\* the characters matched by \s and removed by str.strip()
Space == {" ", "\t", "\n", "\r", "\f"}

(***************************************************************************)
(* Python string operations                                                *)
(***************************************************************************)

\* s.startswith(p)
StartsWith(s, p) == Len(s) >= Len(p) /\ SubSeq(s, 1, Len(p)) = p

\* s.find(p, from): least position >= from where p occurs in s, 0 if none
RECURSIVE Find(_, _, _)
Find(s, p, from) ==
    IF from + Len(p) - 1 > Len(s) THEN 0
    ELSE IF SubSeq(s, from, from + Len(p) - 1) = p THEN from
    ELSE Find(s, p, from + 1)

\* p in s
Contains(s, p) == Find(s, p, 1) # 0

RECURSIVE LStrip(_)
LStrip(s) == IF s # <<>> /\ Head(s) \in Space THEN LStrip(Tail(s)) ELSE s

RECURSIVE RStrip(_)
RStrip(s) ==
    IF s # <<>> /\ s[Len(s)] \in Space THEN RStrip(SubSeq(s, 1, Len(s) - 1))
    ELSE s

\* s.strip()
Strip(s) == RStrip(LStrip(s))

\* s.split(sep): the pieces between the non-overlapping occurrences of sep,
\* found left to right
RECURSIVE Split(_, _)
Split(s, sep) ==
    LET k == Find(s, sep, 1) IN
    IF k = 0 THEN <<s>>
    ELSE <<SubSeq(s, 1, k - 1)>> \o Split(SubSeq(s, k + Len(sep), Len(s)), sep)

\* s.replace(old, new)
RECURSIVE Replace(_, _, _)
Replace(s, old, new) ==
    LET k == Find(s, old, 1) IN
    IF k = 0 THEN s
    ELSE SubSeq(s, 1, k - 1) \o new
         \o Replace(SubSeq(s, k + Len(old), Len(s)), old, new)

\* length of the longest prefix of s made of characters of set cs
RECURSIVE Span(_, _)
Span(s, cs) == IF s # <<>> /\ Head(s) \in cs THEN 1 + Span(Tail(s), cs) ELSE 0

\* length of the longest prefix of s made of characters NOT in set cs
RECURSIVE SpanNot(_, _)
SpanNot(s, cs) ==
    IF s # <<>> /\ Head(s) \notin cs THEN 1 + SpanNot(Tail(s), cs) ELSE 0

Drop(s, n) == SubSeq(s, n + 1, Len(s))
Take(s, n) == SubSeq(s, 1, n)

\* s.split(): the maximal runs of non-whitespace characters
RECURSIVE SplitWS(_)
SplitWS(s) ==
    LET t == LStrip(s)
        n == SpanNot(t, Space)
    IN IF t = <<>> THEN <<>>
       ELSE <<Take(t, n)>> \o SplitWS(Drop(t, n))

\* the printable ASCII characters in code order (from code 32); the grave
\* accent (code 96) cannot be written in a string here and only holds its
\* place
Ascii == <<" ","!","\"","#","$","%","&","'","(",")","*","+",",","-",".","/",
           "0","1","2","3","4","5","6","7","8","9",":",";","<","=",">","?",
           "@","A","B","C","D","E","F","G","H","I","J","K","L","M","N","O",
           "P","Q","R","S","T","U","V","W","X","Y","Z","[","\\","]","^","_",
           "grave","a","b","c","d","e","f","g","h","i","j","k","l","m","n","o",
           "p","q","r","s","t","u","v","w","x","y","z","{","|","}","~">>

\* ord(c)
Ord(c) == 31 + CHOOSE k \in 1..Len(Ascii) : Ascii[k] = c

\* a < b for two texts: Python compares strings by code point, a proper
\* prefix being smaller
RECURSIVE TextLess(_, _)
TextLess(a, b) ==
    IF b = <<>> THEN FALSE
    ELSE IF a = <<>> THEN TRUE
    ELSE IF Head(a) = Head(b) THEN TextLess(Tail(a), Tail(b))
    ELSE Ord(Head(a)) < Ord(Head(b))

\* sorted(S) for a set S of texts
RECURSIVE Sorted(_)
Sorted(S) ==
    IF S = {} THEN <<>>
    ELSE LET m == CHOOSE x \in S : \A y \in S \ {x} : TextLess(x, y)
         IN <<m>> \o Sorted(S \ {m})

\* str(n) for 0 <= n < 100
Decimal(n) ==
    IF n < 10 THEN <<Ascii[17 + n]>>
    ELSE <<Ascii[17 + (n \div 10)], Ascii[17 + (n % 10)]>>

Range(f) == {f[k] : k \in DOMAIN f}

(***************************************************************************)
(* src/parser: the two regular expressions of _parse_relationship          *)
(***************************************************************************)

Quote == "\""

\* "([^"]+)" at the start of s: the text between the quotes, None when s
\* does not start with a closed, non-empty quoted string
Quoted(s) ==
    IF s # <<>> /\ Head(s) = Quote
    THEN LET q == SpanNot(Tail(s), {Quote}) IN
         IF q >= 1 /\ Len(s) >= q + 2 /\ s[q + 2] = Quote
         THEN Take(Tail(s), q) ELSE None
    ELSE None

\* re.match(r'(\w+)(?:\s+"([^"]+)")?', s)
\* ok: whether the pattern matches; g1, g2: the groups (None when absent)
source_match(s) ==
    LET n    == Span(s, WordChar)
        rest == Drop(s, n)
        w    == Span(rest, Space)
        g2   == IF w >= 1 THEN Quoted(Drop(rest, w)) ELSE None
    IN IF n = 0 THEN [ok |-> FALSE, g1 |-> None, g2 |-> None]
       ELSE [ok |-> TRUE, g1 |-> Take(s, n), g2 |-> g2]

\* the alternatives "([^"]+)"|(.+) on a3, the text after the colon and the
\* blanks that follow it (a2 is the text after the colon, w2 the number of
\* those blanks): g3 is the quoted alternative, g4 the bare one
label_alternatives(a2, w2, a3, quoted) ==
    IF quoted # None THEN [g3 |-> quoted, g4 |-> None]
    ELSE IF a3 # <<>> THEN [g3 |-> None, g4 |-> a3]
    ELSE IF w2 >= 1 THEN [g3 |-> None, g4 |-> <<a2[w2]>>]
    ELSE [g3 |-> None, g4 |-> None]

label_after_colon(a2, w2) ==
    label_alternatives(a2, w2, Drop(a2, w2), Quoted(Drop(a2, w2)))

\* the label pattern without its quoted alternative, (?:\s*:\s*(.+))?: a
\* quoted label keeps its quotes
label_match_Bare(rest) ==
    IF Drop(rest, Span(rest, Space)) = <<>>
       \/ Head(Drop(rest, Span(rest, Space))) # ":"
    THEN [g3 |-> None, g4 |-> None]
    ELSE label_alternatives(Tail(Drop(rest, Span(rest, Space))),
                            Span(Tail(Drop(rest, Span(rest, Space))), Space),
                            Drop(Tail(Drop(rest, Span(rest, Space))),
                                 Span(Tail(Drop(rest, Span(rest, Space))),
                                      Space)),
                            None)

\* (?:\s*:\s*(?:"([^"]+)"|(.+)))? applied to what follows the target name
label_match(rest) ==
    IF Drop(rest, Span(rest, Space)) = <<>>
       \/ Head(Drop(rest, Span(rest, Space))) # ":"
    THEN [g3 |-> None, g4 |-> None]
    ELSE label_after_colon(Tail(Drop(rest, Span(rest, Space))),
                           Span(Tail(Drop(rest, Span(rest, Space))), Space))

\* (\w+)(?:\s*:\s*(?:"([^"]+)"|(.+)))? on t, with g1 the cardinality
\* already matched before t
target_name_label(t, n, g1, lab) ==
    IF n = 0
    THEN [ok |-> FALSE, g1 |-> None, g2 |-> None, g3 |-> None, g4 |-> None]
    ELSE [ok |-> TRUE, g1 |-> g1, g2 |-> Take(t, n),
          g3 |-> lab.g3, g4 |-> lab.g4]

target_from(t, g1) ==
    target_name_label(t, Span(t, WordChar), g1,
                      label_match(Drop(t, Span(t, WordChar))))

\* the optional prefix (?:"([^"]+)"\s+)? is taken only when a name follows
\* it: after is the text behind the closing quote, w its leading blanks
target_prefix(s, g1, after, w) ==
    IF g1 # None /\ w >= 1 /\ Span(Drop(after, w), WordChar) >= 1
    THEN target_from(Drop(after, w), g1)
    ELSE target_from(s, None)

target_quoted(s, g1) ==
    IF g1 = None THEN target_from(s, None)
    ELSE target_prefix(s, g1, Drop(s, Len(g1) + 2),
                       Span(Drop(s, Len(g1) + 2), Space))

\* re.match(r'(?:"([^"]+)"\s+)?(\w+)(?:\s*:\s*(?:"([^"]+)"|(.+)))?', s)
target_match(s) == target_quoted(s, Quoted(s))

(***************************************************************************)
(* src/parser: PlantUMLParser                                              *)
(***************************************************************************)

\* the ordered symbol table of _parse_relationship
RelTable == <<
    [type |-> "inheritance", symbol |-> <<"-","-","|",">">>],
    [type |-> "inheritance", symbol |-> <<"<","|","-","-">>],
    [type |-> "composition", symbol |-> <<"-","-","*">>],
    [type |-> "composition", symbol |-> <<"*","-","-">>],
    [type |-> "aggregation", symbol |-> <<"-","-","o">>],
    [type |-> "aggregation", symbol |-> <<"o","-","-">>],
    [type |-> "association", symbol |-> <<"-","-",">">>],
    [type |-> "association", symbol |-> <<"<","-","-">>],
    [type |-> "association", symbol |-> <<"-","-">>] >>

\* the symbols parse() looks for before calling _parse_relationship
ParseSymbols == <<
    <<"-","-","|",">">>, <<"-","-","*">>, <<"-","-","o">>, <<"-","-">>,
    <<"<","|","-","-">>, <<"*","-","-">>, <<"o","-","-">> >>

\* UMLClass(name=class_name, attributes=[], methods=[])
UMLClass(name) == [name |-> name, attributes |-> <<>>, methods |-> <<>>]

\* position of key name in the insertion-ordered dict d, 0 when absent
DictPos(d, name) ==
    IF \E k \in 1..Len(d) : d[k].name = name
    THEN CHOOSE k \in 1..Len(d) : d[k].name = name
    ELSE 0

\* a list of records instead of a dict: every declaration adds a record
DictSet_Append(d, value) == Append(d, value)

\* d[name] = value: an existing key keeps its position
DictSet(d, value) ==
    LET k == DictPos(d, value.name) IN
    IF k = 0 THEN Append(d, value) ELSE [d EXCEPT ![k] = value]

\* label = group(3) or group(4); if label: label = label.strip()
label_of(lab0) == IF lab0 # None /\ lab0 # <<>> THEN Strip(lab0) ELSE lab0

\* the UMLRelationship appended by _parse_relationship, or the IndexError
\* of "".split()[0]; sm and tm are the two matches, stoks and ttoks the
\* whitespace-delimited tokens of the two sides
relationship_of(rel_type, sm, tm, stoks, ttoks) ==
    IF ~sm.ok /\ stoks = <<>> THEN [kind |-> "raise"]
    ELSE IF ~tm.ok /\ ttoks = <<>> THEN [kind |-> "raise"]
    ELSE [kind |-> "rel",
          rel |-> [source |-> IF sm.ok THEN sm.g1 ELSE stoks[1],
                   target |-> IF tm.ok THEN tm.g2 ELSE ttoks[1],
                   relationship_type |-> rel_type,
                   cardinality_source |->
                       IF sm.ok /\ sm.g2 # None /\ sm.g2 # <<>>
                       THEN sm.g2 ELSE None,
                   cardinality_target |-> IF tm.ok THEN tm.g1 ELSE None,
                   label |-> IF tm.ok
                             THEN label_of(IF tm.g3 # None /\ tm.g3 # <<>>
                                           THEN tm.g3 ELSE tm.g4)
                             ELSE None]]

relationship_from(rel_type, source_part, target_part) ==
    relationship_of(rel_type, source_match(source_part),
                    target_match(target_part),
                    SplitWS(source_part), SplitWS(target_part))

\* the body of the "if len(parts) == 2" branch
build_relationship(rel_type, parts) ==
    relationship_from(rel_type, Strip(parts[1]), Strip(parts[2]))

\* the for loop of _parse_relationship from table entry k on: the first
\* symbol that occurs in the line and splits it in exactly two parts decides
RECURSIVE rel_loop(_, _)
rel_loop(line, k) ==
    IF k > Len(RelTable) THEN [kind |-> "none"]
    ELSE LET parts == Split(line, RelTable[k].symbol) IN
         IF Contains(line, RelTable[k].symbol) /\ Len(parts) = 2
         THEN build_relationship(RelTable[k].type, parts)
         ELSE rel_loop(line, k + 1)

parse_relationship(line) == rel_loop(line, 1)

\* line.replace("class ", "").replace("{", "").strip().split()
class_name_parts(line) ==
    SplitWS(Strip(Replace(Replace(line, <<"c","l","a","s","s"," ">>, <<>>),
                          <<"{">>, <<>>)))

IsMemberLine(line) ==
    \/ StartsWith(line, <<"+">>)
    \/ StartsWith(line, <<"-">>)
    \/ StartsWith(line, <<"#">>)

\* members kept as a set: a line already recorded is not recorded again
parse_class_member_Dedup(d, class_name, line) ==
    LET k == DictPos(d, class_name)
        seen == \E j \in 1..Len(d[k].attributes) : d[k].attributes[j] = line
        seenM == \E j \in 1..Len(d[k].methods) : d[k].methods[j] = line
    IN IF Contains(line, <<"(">>)
       THEN IF seenM THEN d ELSE [d EXCEPT ![k].methods = Append(@, line)]
       ELSE IF seen THEN d ELSE [d EXCEPT ![k].attributes = Append(@, line)]

\* _parse_class_member: a member with a parenthesis is a method
parse_class_member(d, class_name, line) ==
    LET k == DictPos(d, class_name) IN
    IF Contains(line, <<"(">>)
    THEN [d EXCEPT ![k].methods = Append(@, line)]
    ELSE [d EXCEPT ![k].attributes = Append(@, line)]

\* _parse_class_declaration on the tokens of the declaration line
declare_class(st, parts) ==
    IF parts = <<>> THEN [st EXCEPT !.exc = "IndexError"]
    ELSE [st EXCEPT !.classes = DictSet(@, UMLClass(parts[1])),
                    !.current_class = parts[1]]

\* the effect of _parse_relationship, r being what it built
add_relationship(st, r) ==
    IF r.kind = "raise" THEN [st EXCEPT !.exc = "IndexError"]
    ELSE IF r.kind = "rel" THEN [st EXCEPT !.relationships = Append(@, r.rel)]
    ELSE st

\* the if/elif chain of parse() on a stripped line
parse_stripped(st, line) ==
    IF line = <<>> \/ StartsWith(line, <<"'">>) \/ StartsWith(line, <<"@">>)
    THEN st
    ELSE IF StartsWith(line, <<"c","l","a","s","s"," ">>)
    THEN declare_class(st, class_name_parts(line))
    ELSE IF line = <<"}">>
    THEN [st EXCEPT !.current_class = None]
    ELSE IF st.current_class # None /\ IsMemberLine(line)
    THEN [st EXCEPT !.classes = parse_class_member(@, st.current_class, line)]
    ELSE IF \E k \in 1..Len(ParseSymbols) : Contains(line, ParseSymbols[k])
    THEN add_relationship(st, parse_relationship(line))
    ELSE st

\* One iteration of the for loop of parse() on parser state
\* st = [classes, relationships, current_class, exc].
parse_line(st, raw) == parse_stripped(st, Strip(raw))

\* the whole for loop of parse(), stopping at the first exception
RECURSIVE parse_lines(_, _)
parse_lines(st, ls) ==
    IF ls = <<>> \/ st.exc # "none" THEN st
    ELSE parse_lines(parse_line(st, Head(ls)), Tail(ls))

\* parse() starts from empty collections
ParserInit ==
    [classes |-> <<>>, relationships |-> <<>>, current_class |-> None,
     exc |-> "none"]

(***************************************************************************)
(* src/knowledge_graph: KnowledgeGraph                                     *)
(*                                                                         *)
(* The directed graph keeps its nodes in insertion order, each with the    *)
(* data that export_for_fca reads ("type" and "value"; a node created by   *)
(* add_edge has no "type"), and its edges as a set of pairs.               *)
(***************************************************************************)

\* KnowledgeGraph.__init__: an empty graph, _node_counter = 0
EmptyGraph == [nodes |-> <<>>, edges |-> {}, counter |-> 0]

NodePos(g, id) ==
    IF \E k \in 1..Len(g.nodes) : g.nodes[k].id = id
    THEN CHOOSE k \in 1..Len(g.nodes) : g.nodes[k].id = id
    ELSE 0

\* graph.add_node(id, type=type, ...) for a class node: the data of an
\* existing node is updated, its "value" kept
add_class_node(g, id) ==
    IF NodePos(g, id) = 0
    THEN [g EXCEPT !.nodes = Append(@, [id |-> id, type |-> "class",
                                        value |-> None])]
    ELSE [g EXCEPT !.nodes[NodePos(g, id)].type = "class"]

\* graph.add_node(id, type=type, value=value, parent_class=...) followed by
\* graph.add_edge(class_name, id, ...), with the counter advanced by
\* _get_next_id
add_feature_node(g, class_name, id, type, value) ==
    [nodes |-> IF NodePos(g, id) = 0
               THEN Append(g.nodes, [id |-> id, type |-> type,
                                     value |-> value])
               ELSE [g.nodes EXCEPT ![NodePos(g, id)] =
                        [id |-> id, type |-> type, value |-> value]],
     edges |-> g.edges \cup {<<class_name, id>>},
     counter |-> g.counter + 1]

\* f"{class_name}_{attr}_{self._get_next_id()}"
feature_id(class_name, feature, n) ==
    class_name \o <<"_">> \o feature \o <<"_">> \o Decimal(n)

\* the loop over uml_class.attributes (type "attribute") or
\* uml_class.methods (type "method")
RECURSIVE add_features(_, _, _, _)
add_features(g, class_name, type, features) ==
    IF features = <<>> THEN g
    ELSE add_features(
             add_feature_node(g, class_name,
                              feature_id(class_name, Head(features),
                                         g.counter + 1),
                              type, Head(features)),
             class_name, type, Tail(features))

\* the body of the loop over classes.items()
add_class(g, c) ==
    add_features(add_features(add_class_node(g, c.name), c.name,
                              "attribute", c.attributes),
                 c.name, "method", c.methods)

RECURSIVE add_classes(_, _)
add_classes(g, cs) ==
    IF cs = <<>> THEN g ELSE add_classes(add_class(g, Head(cs)), Tail(cs))

\* a node that add_edge creates has no data
add_bare_node(g, id) ==
    IF NodePos(g, id) # 0 THEN g
    ELSE [g EXCEPT !.nodes = Append(@, [id |-> id, type |-> "none",
                                        value |-> None])]

\* graph.add_edge(rel.source, rel.target, ...)
add_edge(g, u, v) ==
    [add_bare_node(add_bare_node(g, u), v) EXCEPT
        !.edges = @ \cup {<<u, v>>}]

RECURSIVE add_relationships(_, _)
add_relationships(g, rels) ==
    IF rels = <<>> THEN g
    ELSE add_relationships(add_edge(g, Head(rels).source, Head(rels).target),
                           Tail(rels))

\* KnowledgeGraph.from_uml_model
from_uml_model(g, cs, rels) == add_relationships(add_classes(g, cs), rels)

IsFeatureNode(n) == n.type \in {"attribute", "method"}

\* the names of the class nodes, in node order
graph_classes(g) ==
    LET cn == SelectSeq(g.nodes, LAMBDA n : n.type = "class")
    IN [k \in 1..Len(cn) |-> cn[k].id]

\* the set "features" of export_for_fca
graph_features(g) == {n.value : n \in {m \in Range(g.nodes) : IsFeatureNode(m)}}

\* cls_features: the values of the feature nodes among graph.neighbors(cls)
class_features(g, cls) ==
    {n.value : n \in {m \in Range(g.nodes) :
                          IsFeatureNode(m) /\ <<cls, m.id>> \in g.edges}}

\* the row written for one class: its name, then "X" or "" per column
context_row(g, cls, sorted_features) ==
    <<cls>> \o [k \in 1..Len(sorted_features) |->
                   IF sorted_features[k] \in class_features(g, cls)
                   THEN <<"X">> ELSE <<>>]

\* the table written when there is a class and a feature
context_table(g, sorted_features, sorted_classes) ==
    [header |-> << <<>> >> \o sorted_features,
     rows |-> [k \in 1..Len(sorted_classes) |->
                  context_row(g, sorted_classes[k], sorted_features)]]

\* an empty file
EmptyFile == [header |-> <<>>, rows |-> <<>>]

\* KnowledgeGraph.export_for_fca: the content of the file it writes
export_for_fca(g) ==
    IF graph_classes(g) # <<>> /\ graph_features(g) # {}
    THEN context_table(g, Sorted(graph_features(g)),
                       Sorted(Range(graph_classes(g))))
    ELSE EmptyFile

(***************************************************************************)
(* src/fca_analyzer: FCAAnalyzer                                           *)
(*                                                                         *)
(* A relevance score is kept as an exact fraction num/den (den > 0).  The  *)
(* external tool is the environment: a run of it is one of                 *)
(*   missing  - subprocess.run raises FileNotFoundError (no java)          *)
(*   failed   - the process exits non-zero (no jar, or the tool fails)     *)
(*   timeout  - subprocess.run raises TimeoutExpired                       *)
(*   ok       - the process exits with 0 and leaves an output file, which  *)
(*              holds concept records or cannot be read as XML             *)
(***************************************************************************)

NotRun == [mode |-> "notrun"]

Zero == [num |-> 0, den |-> 1]

\* FormalConcept(extent=..., intent=...): relevance_score defaults to 0.0
FormalConcept(extent, intent) ==
    [extent |-> extent, intent |-> intent, relevance_score |-> Zero]

\* position of concept id cid in the insertion-ordered concept_map
MapPos(cm, cid) ==
    IF \E k \in 1..Len(cm) : cm[k].id = cid
    THEN CHOOSE k \in 1..Len(cm) : cm[k].id = cid
    ELSE 0

\* the texts of the references of one element: empty texts are skipped, the
\* others stripped
ref_texts(refs) == {Strip(r) : r \in {x \in refs : x # <<>>}}

ref_list(refs) ==
    LET kept == SelectSeq(refs, LAMBDA x : x # <<>>)
    IN [k \in 1..Len(kept) |-> Strip(kept[k])]

\* concept_map[cid] = {...}: a repeated id overwrites, keeping its position
concept_map_set(cm, entry) ==
    IF MapPos(cm, entry.id) = 0 THEN Append(cm, entry)
    ELSE [cm EXCEPT ![MapPos(cm, entry.id)] = entry]

\* first pass of _parse_fca_xml_output over the <Concept> elements; an
\* element without an ID text is skipped
RECURSIVE first_pass(_, _)
first_pass(cm, elems) ==
    IF elems = <<>> THEN cm
    ELSE IF Head(elems).id = None \/ Head(elems).id = <<>>
    THEN first_pass(cm, Tail(elems))
    ELSE first_pass(
             concept_map_set(cm,
                 [id |-> Strip(Head(elems).id),
                  extent |-> ref_texts(Head(elems).extent),
                  intent |-> ref_texts(Head(elems).intent),
                  upper_covers |-> ref_list(Head(elems).upper_covers)]),
             Tail(elems))

\* objects.update(get_all_objects(other_id, visited)): the callee has
\* added to the shared visited set
objects_update(acc, r) ==
    [objects |-> acc.objects \cup r.objects, visited |-> r.visited]

RECURSIVE get_all_objects(_, _, _)
RECURSIVE collect_descendants(_, _, _, _)

\* an inference that stops at the concepts directly below
get_all_objects_OneLevel(cm, cid, visited) ==
    IF cid \in visited \/ MapPos(cm, cid) = 0
    THEN [objects |-> {}, visited |-> visited]
    ELSE [objects |-> cm[MapPos(cm, cid)].extent \cup
                      UNION {cm[k].extent :
                                k \in {q \in 1..Len(cm) :
                                          cid \in Range(cm[q].upper_covers)}},
          visited |-> visited \cup {cid}]

\* get_all_objects(cid, visited): the objects collected and the visited set
\* as the call leaves it
get_all_objects(cm, cid, visited) ==
    IF cid \in visited \/ MapPos(cm, cid) = 0
    THEN [objects |-> {}, visited |-> visited]
    ELSE collect_descendants(cm, cid, 1,
             [objects |-> cm[MapPos(cm, cid)].extent,
              visited |-> visited \cup {cid}])

\* the loop over concept_map.items() from position k on
collect_descendants(cm, cid, k, acc) ==
    IF k > Len(cm) THEN acc
    ELSE IF cid \in Range(cm[k].upper_covers)
    THEN collect_descendants(cm, cid, k + 1,
             objects_update(acc, get_all_objects(cm, cm[k].id, acc.visited)))
    ELSE collect_descendants(cm, cid, k + 1, acc)

\* the extent the third pass works with
inferred_extent(cm, data) ==
    IF data.extent = {} /\ data.intent # {}
    THEN get_all_objects(cm, data.id, {}).objects
    ELSE data.extent

\* a third pass that does not look at the intent
keep_concept_AnyIntent(extent, intent) ==
    IF extent # {} /\ Cardinality(extent) >= 2
    THEN << FormalConcept(extent, intent) >> ELSE <<>>

\* the condition under which the third pass keeps a concept
keep_concept(extent, intent) ==
    IF extent # {} /\ intent # {} /\ Cardinality(extent) >= 2
    THEN << FormalConcept(extent, intent) >> ELSE <<>>

\* third pass of _parse_fca_xml_output from position k on
RECURSIVE third_pass(_, _)
third_pass(cm, k) ==
    IF k > Len(cm) THEN <<>>
    ELSE keep_concept(inferred_extent(cm, cm[k]), cm[k].intent)
         \o third_pass(cm, k + 1)

\* FCAAnalyzer._parse_fca_xml_output; a file that is missing or is not XML
\* gives no concepts
parse_fca_xml_output(output) ==
    IF output.kind = "unreadable" THEN <<>>
    ELSE third_pass(first_pass(<<>>, output.elems), 1)

\* position of the column that csv.DictReader stores under key name (the
\* last one of that name), 0 when there is none
ColumnOf(header, name) ==
    IF \E k \in 1..Len(header) : header[k] = name
    THEN CHOOSE k \in 1..Len(header) :
             header[k] = name /\ \A j \in (k + 1)..Len(header) : header[j] # name
    ELSE 0

\* the keys of rows[0] other than "object", in order
attribute_columns(header) ==
    SelectSeq([k \in 1..Len(header) |-> k],
              LAMBDA k : header[k] # <<"o","b","j","e","c","t">>
                         /\ ColumnOf(header, header[k]) = k)

\* the cells that the fallback counts as present
TrueCells == {<<"T","r","u","e">>, <<"1">>}

\* the extent collected for column k: row["object"] of the rows marked
column_extent(rows, k, obj) ==
    {rows[r][obj] : r \in {q \in 1..Len(rows) : rows[q][k] \in TrueCells}}

column_concept(extent, attr) ==
    IF extent # {} THEN << FormalConcept(extent, {attr}) >> ELSE <<>>

RECURSIVE column_concepts(_, _, _)
column_concepts(file, cols, obj) ==
    IF cols = <<>> THEN <<>>
    ELSE column_concept(column_extent(file.rows, Head(cols), obj),
                        file.header[Head(cols)])
         \o column_concepts(file, Tail(cols), obj)

\* FCAAnalyzer._fallback_fca_analysis: the concepts, or the KeyError of
\* row["object"] on a table without such a column
fallback_fca_analysis(file) ==
    IF file.rows = <<>> THEN [exc |-> "none", concepts |-> <<>>]
    ELSE IF ColumnOf(file.header, <<"o","b","j","e","c","t">>) = 0
    THEN [exc |-> "KeyError", concepts |-> <<>>]
    ELSE [exc |-> "none",
          concepts |-> column_concepts(file, attribute_columns(file.header),
                           ColumnOf(file.header, <<"o","b","j","e","c","t">>))]

\* max(len(c.extent) for c in self.concepts) and the same for intents
MaxOf(S) == CHOOSE m \in S : \A n \in S : n <= m

max_extent(cs) == MaxOf({Cardinality(cs[k].extent) : k \in 1..Len(cs)})

max_intent(cs) == MaxOf({Cardinality(cs[k].intent) : k \in 1..Len(cs)})

\* len(...) / max if max > 0 else 0
size_score(n, max) == IF max > 0 THEN [num |-> n, den |-> max] ELSE Zero

\* (extent_score * intent_score) * 100
relevance(es, is) == [num |-> es.num * is.num * 100, den |-> es.den * is.den]

\* a score that leaves the intent out
score_concept_ExtentOnly(c, me, mi) ==
    [c EXCEPT !.relevance_score =
        relevance(size_score(Cardinality(c.extent), me), [num |-> 1, den |-> 1])]

\* the body of the loop of _calculate_relevance_scores
score_concept(c, me, mi) ==
    [c EXCEPT !.relevance_score =
        relevance(size_score(Cardinality(c.extent), me),
                  size_score(Cardinality(c.intent), mi))]

score_all(cs, me, mi) == [k \in 1..Len(cs) |-> score_concept(cs[k], me, mi)]

\* FCAAnalyzer._calculate_relevance_scores
calculate_relevance_scores(cs) ==
    IF cs = <<>> THEN cs ELSE score_all(cs, max_extent(cs), max_intent(cs))

\* the end of analyze() once the concepts are there
analyze_scored(r) ==
    IF r.exc # "none" THEN r
    ELSE [exc |-> "none", concepts |-> calculate_relevance_scores(r.concepts)]

\* FCAAnalyzer.analyze: only FileNotFoundError and RuntimeError lead to the
\* fallback
analyze(file, run) ==
    IF run.mode = "timeout" THEN [exc |-> "TimeoutExpired", concepts |-> <<>>]
    ELSE IF run.mode \in {"missing", "failed"}
    THEN analyze_scored(fallback_fca_analysis(file))
    ELSE analyze_scored([exc |-> "none",
                         concepts |-> parse_fca_xml_output(run.output)])

\* PipelineConfig(): min_relevance = 50.0, min_extent_size = 2
DefaultConfig == [min_relevance |-> 50, min_extent_size |-> 2]

\* LLMNamingService(): provider "openai", no key, so no client
DefaultService == [provider |-> "openai", client |-> FALSE]

\* the stages behind the analyzer before anything reaches them
SynthInit ==
    /\ config = DefaultConfig
    /\ relevant = <<>>
    /\ abstract_classes = <<>>
    /\ service = DefaultService
    /\ named_classes = <<>>
    /\ merged = <<>>
    /\ output_lines = <<>>

\* the summary of a run that has not reached a step yet
NoResults == [abstract_classes_count |-> 0, concepts_evaluated |-> 0]

\* ConceptEvaluator(): no evaluations; nothing exported; the first run()
EvalInit ==
    /\ exported = <<>>
    /\ evaluations = <<>>
    /\ evaluation_csv = <<>>
    /\ results = NoResults
    /\ run_no = 1

\* the fields behind the parser before the pipeline reaches them
LaterInit ==
    /\ graph = EmptyGraph
    /\ context_file = EmptyFile
    /\ tool = NotRun
    /\ concepts = <<>>
    /\ SynthInit
    /\ EvalInit

(***************************************************************************)
(* Inputs of the parser: a diagram is a sequence of blocks, a block being  *)
(* a class block (opening line, member lines, closing brace) or one line   *)
(* outside any block.                                                      *)
(***************************************************************************)

MaxBlocks == 2      \* blocks in a diagram
MaxMembers == 2     \* member lines in a class block

SeqsUpTo(S, n) == UNION {[1..k -> S] : k \in 0..n}

ClassNames == {<<"A">>, <<"B">>}

MemberLines == {<<"+","x">>, <<"-","f","(",")">>}

\* lines outside a class block
OuterLines == {
    <<"A"," ","-","-",">"," ","B">>,
    <<"-","-">>,
    <<"A"," ","-","-">>,
    <<"c","l","a","s","s"," ","{">>,
    <<"h","e","l","l","o">>,
    <<"@","s","t","a","r","t","u","m","l">>,
    <<>> }

Blocks ==
    [kind : {"class"}, name : ClassNames,
     members : SeqsUpTo(MemberLines, MaxMembers)]
    \cup [kind : {"line"}, text : OuterLines]

\* the text lines of a block; member lines are indented
RenderBlock(b) ==
    IF b.kind = "class"
    THEN <<(<<"c","l","a","s","s"," ">> \o b.name \o <<" ","{">>)>>
         \o [k \in 1..Len(b.members) |-> <<" "," ">> \o b.members[k]]
         \o << <<"}">> >>
    ELSE <<b.text>>

RECURSIVE RenderBlocks(_)
RenderBlocks(bs) ==
    IF bs = <<>> THEN <<>> ELSE RenderBlock(Head(bs)) \o RenderBlocks(Tail(bs))

(***************************************************************************)
(* PlantUMLParser.parse(), one line per step                               *)
(***************************************************************************)

InitParse ==
    /\ input \in SeqsUpTo(Blocks, MaxBlocks)
    /\ lines = RenderBlocks(input)
    /\ pc = "parse"
    /\ exc = "none"
    /\ idx = 0
    /\ current_class = None
    /\ classes = <<>>
    /\ relationships = <<>>
    /\ LaterInit

\* the parser's fields after an iteration that left parser state st
ParserBecomes(st) ==
    /\ classes' = st.classes
    /\ relationships' = st.relationships
    /\ current_class' = st.current_class
    /\ exc' = st.exc
    /\ pc' = IF st.exc = "none" THEN "parse" ELSE "raised"

\* one iteration of the for loop of parse()
ParseLine ==
    /\ pc = "parse"
    /\ idx < Len(lines)
    /\ ParserBecomes(parse_line([classes |-> classes,
                                 relationships |-> relationships,
                                 current_class |-> current_class,
                                 exc |-> "none"], lines[idx + 1]))
    /\ idx' = idx + 1
    /\ UNCHANGED <<input, lines, later_vars>>

\* return {"classes": ..., "relationships": ...}
ParseReturn ==
    /\ pc = "parse"
    /\ idx = Len(lines)
    /\ pc' = "parsed"
    /\ UNCHANGED <<eval_vars, exc, input, lines, idx, current_class, classes,
                   relationships, later_vars>>

NextParse == ParseLine \/ ParseReturn

SpecParse == InitParse /\ [][NextParse]_vars

(***************************************************************************)
(* Properties of parse()                                                   *)
(***************************************************************************)

HasParen(m) == \E k \in 1..Len(m) : m[k] = "("

\* the class block at position k of the input is the last one of its name
LastOfName(k) ==
    /\ input[k].kind = "class"
    /\ \A j \in (k + 1)..Len(input) :
           ~(input[j].kind = "class" /\ input[j].name = input[k].name)

\* the names declared by the class blocks of the input
DeclaredCount(name) ==
    Cardinality({k \in 1..Len(input) :
                    input[k].kind = "class" /\ input[k].name = name})

\* C4: parse() never raises, whatever the text: a line it cannot interpret
\* is skipped and the remaining lines are parsed.
C4_ParseNeverRaises == pc # "raised"

\* C5: for every class block (the last of its name), the entity of that
\* name lists exactly the block's member lines without a parenthesis as
\* attributes and exactly those with a parenthesis as methods, in
\* declaration order, none added, dropped, duplicated or de-duplicated.
C5_MembersExact ==
    pc = "parsed" =>
        \A k \in 1..Len(input) : LastOfName(k) =>
            \E j \in 1..Len(classes) :
                /\ classes[j].name = input[k].name
                /\ classes[j].attributes =
                       SelectSeq(input[k].members, LAMBDA m : ~HasParen(m))
                /\ classes[j].methods =
                       SelectSeq(input[k].members, HasParen)

\* a parsed diagram with a class block that declares the same attribute
\* twice and one that declares an attribute and a method
C5_Witness ==
    /\ pc = "parsed"
    /\ \E k \in 1..Len(input) :
           /\ LastOfName(k)
           /\ input[k].members = << <<"+","x">>, <<"+","x">> >>
    /\ \E k \in 1..Len(input) :
           /\ LastOfName(k)
           /\ input[k].members = << <<"-","f","(",")">>, <<"+","x">> >>

\* C8: entity names are unique, and the entity of a name declared more than
\* once holds only the members of the last declaration of that name.
C8_LastDeclarationWins ==
    pc = "parsed" =>
        /\ \A i, j \in 1..Len(classes) :
               classes[i].name = classes[j].name => i = j
        /\ \A k \in 1..Len(input) :
               (LastOfName(k) /\ DeclaredCount(input[k].name) > 1) =>
                   \E j \in 1..Len(classes) :
                       /\ classes[j].name = input[k].name
                       /\ Len(classes[j].attributes) + Len(classes[j].methods)
                              = Len(input[k].members)
                       /\ \A m \in 1..Len(classes[j].attributes) :
                              \E n \in 1..Len(input[k].members) :
                                  input[k].members[n] = classes[j].attributes[m]
                       /\ \A m \in 1..Len(classes[j].methods) :
                              \E n \in 1..Len(input[k].members) :
                                  input[k].members[n] = classes[j].methods[m]

\* a parsed diagram that declares one name twice, first with members and
\* then with other members
C8_Witness ==
    /\ pc = "parsed"
    /\ Len(input) >= 2
    /\ input[1].kind = "class" /\ input[2].kind = "class"
    /\ input[1].name = input[2].name
    /\ input[1].members = << <<"+","x">> >>
    /\ input[2].members = << <<"-","f","(",")">> >>
    /\ Len(classes) = 1

(***************************************************************************)
(* Inputs of _parse_relationship: one line outside any block, either a     *)
(* chain of names joined by relationship symbols or a line of the form     *)
(* LEFT ["card"] symbol ["card"] RIGHT [: label].                          *)
(***************************************************************************)

MaxSymbols == 3     \* relationship symbols in one line

Symbols == {RelTable[k].symbol : k \in 1..Len(RelTable)}

ChainNames == << <<"A">>, <<"B">>, <<"C">>, <<"D">>, <<"E">> >>

LeftNames == {<<"X">>, <<"Y","o">>, <<"B","_","2">>}

\* right-hand names: the last one does not start with a word character, so
\* the target pattern does not match
RightNames == {<<"X">>, <<"Y","o">>, <<"B","_","2">>, <<"$","z">>}

Cardinalities == {None, <<"1">>, <<"0",".",".","*">>}

\* a label is absent, bare text or quoted text
Labels ==
    {[text |-> None, quoted |-> FALSE],
     [text |-> <<"u","s","e","s">>, quoted |-> FALSE],
     [text |-> <<"h","a","s"," ","m","a","n","y">>, quoted |-> TRUE]}

RelInputs ==
    [kind : {"chain"},
     symbols : SeqsUpTo(Symbols, MaxSymbols) \ {<<>>}]
    \cup [kind : {"form"}, left : LeftNames, card_source : Cardinalities,
          symbol : Symbols, card_target : Cardinalities,
          right : RightNames, label : Labels]

InQuotes(t) == <<Quote>> \o t \o <<Quote>>

RECURSIVE RenderChain(_, _)
RenderChain(syms, k) ==
    IF k > Len(syms) THEN ChainNames[k]
    ELSE ChainNames[k] \o <<" ">> \o syms[k] \o <<" ">>
         \o RenderChain(syms, k + 1)

\* the text of the right side of a line of the second form
RenderRight(r) ==
    (IF r.card_target = None THEN <<>>
     ELSE InQuotes(r.card_target) \o <<" ">>)
    \o r.right
    \o (IF r.label.text = None THEN <<>>
        ELSE <<" ",":"," ">> \o (IF r.label.quoted
                                 THEN InQuotes(r.label.text)
                                 ELSE r.label.text))

RenderRel(r) ==
    IF r.kind = "chain" THEN RenderChain(r.symbols, 1)
    ELSE r.left
         \o (IF r.card_source = None THEN <<>>
             ELSE <<" ">> \o InQuotes(r.card_source))
         \o <<" ">> \o r.symbol \o <<" ">> \o RenderRight(r)

InitRel ==
    /\ input \in RelInputs
    /\ lines = <<RenderRel(input)>>
    /\ pc = "parse"
    /\ exc = "none"
    /\ idx = 0
    /\ current_class = None
    /\ classes = <<>>
    /\ relationships = <<>>
    /\ LaterInit

SpecRel == InitRel /\ [][NextParse]_vars

(***************************************************************************)
(* Properties of _parse_relationship                                       *)
(***************************************************************************)

\* index in the symbol table of the first symbol that occurs in the line
FirstSymbol(line) ==
    CHOOSE k \in 1..Len(RelTable) :
        /\ Contains(line, RelTable[k].symbol)
        /\ \A j \in 1..(k - 1) : ~Contains(line, RelTable[j].symbol)

\* C6: a relationship line yields at most one Relationship, of the kind of
\* the first symbol of the table that occurs anywhere in the line; so a line
\* containing <|-- is inheritance and a line containing *-- (and no
\* inheritance symbol) is composition, never association.
C6_FirstSymbolWins ==
    pc = "parsed" =>
        /\ Len(relationships) <= 1
        /\ Len(relationships) = 1 =>
               relationships[1].relationship_type
                   = RelTable[FirstSymbol(lines[1])].type

MaxClasses == 2
MaxRelLines == 1

RunNames == {<<"B">>, <<"$","C">>}

RunMembers == {<<>>, << <<"+","x">> >>, << <<"-","f","(",")">> >>,
               << <<"+","x">>, <<"-","f","(",")">> >>}

\* relationship lines of the input diagrams; the first one names B and the
\* word "$C_+x_1", the last one is a line on which parse() raises
RunRelLines == {
    <<"B"," ","-","-"," ","$","C","_","+","x","_","1">>,
    <<"$","C"," ","-","-","|",">"," ","B">>,
    <<"-","-">>}

\* the input diagrams: class blocks, then relationship lines
Diagrams ==
    [blocks : SeqsUpTo([kind : {"class"}, name : RunNames,
                        members : RunMembers], MaxClasses),
     rels : SeqsUpTo([kind : {"line"}, text : RunRelLines], MaxRelLines)]

\* the files the tool may leave when it exits with 0
LatticeOutputs == {
    [kind |-> "unreadable"],
    [kind |-> "xml", elems |-> <<>>],
    [kind |-> "xml", elems |-> <<
        [id |-> <<"1">>, extent |-> {<<"B">>, <<"$","C">>},
         intent |-> {<<"+","x">>}, upper_covers |-> <<>>] >>],
    [kind |-> "xml", elems |-> <<
        [id |-> <<"1">>, extent |-> {}, intent |-> {<<"+","x">>},
         upper_covers |-> <<>>],
        [id |-> <<"2">>, extent |-> {<<"B">>, <<"$","C">>},
         intent |-> {<<"+","x">>, <<"-","f","(",")">>},
         upper_covers |-> << <<"1">> >>] >>],
    [kind |-> "xml", elems |-> <<
        [id |-> <<"1">>, extent |-> {<<"A">>, <<"B">>},
         intent |-> {<<"+","x">>}, upper_covers |-> <<>>],
        [id |-> <<"2">>, extent |-> {<<"B">>, <<"C">>},
         intent |-> {<<"-","f","(",")">>}, upper_covers |-> <<>>] >>],
    [kind |-> "xml", elems |-> <<
        [id |-> <<"1">>, extent |-> {<<"B">>, <<"$","C">>}, intent |-> {},
         upper_covers |-> <<>>],
        [id |-> <<"2">>, extent |-> {<<"B">>, <<"$","C">>},
         intent |-> {<<"+","x">>}, upper_covers |-> << <<"1">> >>] >>]}

\* what can happen to the subprocess that analyze() starts
ToolRuns ==
    {[mode |-> "missing"], [mode |-> "failed"], [mode |-> "timeout"]}
    \cup [mode : {"ok"}, output : LatticeOutputs]

\* run() is called on a fresh pipeline with the diagram file as input
Init ==
    /\ input \in Diagrams
    /\ lines = RenderBlocks(input.blocks \o input.rels)
    /\ pc = "step1"
    /\ exc = "none"
    /\ idx = 0
    /\ current_class = None
    /\ classes = <<>>
    /\ relationships = <<>>
    /\ LaterInit

\* the parser's fields after parse() and where run() goes on
RunParsed(st) ==
    /\ classes' = st.classes
    /\ relationships' = st.relationships
    /\ current_class' = st.current_class
    /\ exc' = st.exc
    /\ pc' = IF st.exc = "none" THEN "step2" ELSE "raised"

\* Step 1: _step_parse
StepParse ==
    /\ pc = "step1"
    /\ RunParsed(parse_lines(ParserInit, lines))
    /\ idx' = Len(lines)
    /\ UNCHANGED <<input, lines, later_vars>>

\* Step 2: _step_build_knowledge_graph
StepBuildGraph ==
    /\ pc = "step2"
    /\ graph' = from_uml_model(graph, classes, relationships)
    /\ pc' = "step3"
    /\ UNCHANGED <<eval_vars, exc, input, lines, idx, current_class, classes,
                   relationships, context_file, tool, concepts, synth_vars>>

\* Step 3: knowledge_graph.export_for_fca
StepExport ==
    /\ pc = "step3"
    /\ context_file' = export_for_fca(graph)
    /\ pc' = "step4"
    /\ UNCHANGED <<eval_vars, exc, input, lines, idx, current_class, classes,
                   relationships, graph, tool, concepts, synth_vars>>

\* the analyzer's concepts after analyze() and where run() goes on
RunAnalyzed(r) ==
    /\ exc' = r.exc
    /\ pc' = IF r.exc = "none" THEN "step5" ELSE "raised"
    /\ concepts' = IF r.exc = "none" THEN r.concepts ELSE concepts

\* row o of the context is marked in column a
Marked(file, o, a) ==
    \E r \in 1..Len(file.rows) :
        /\ file.rows[r][1] = o
        /\ \E c \in 2..Len(file.header) :
               file.header[c] = a /\ file.rows[r][c] # <<>>

\* the tool reports objects and attributes of the context it was given, and
\* with a set of objects only attributes that all of them are marked with
ReadsContext(run, file) ==
    (run.mode = "ok" /\ run.output.kind = "xml") =>
        \A k \in 1..Len(run.output.elems) :
            /\ run.output.elems[k].extent
                  \subseteq {file.rows[r][1] : r \in 1..Len(file.rows)}
            /\ run.output.elems[k].intent \subseteq Range(file.header)
            /\ \A o \in run.output.elems[k].extent :
                   \A a \in run.output.elems[k].intent : Marked(file, o, a)

\* Step 4: _step_fca_analysis
StepFca ==
    /\ pc = "step4"
    /\ \E run \in ToolRuns :
          /\ ReadsContext(run, context_file)
          /\ tool' = run
          /\ RunAnalyzed(analyze(context_file, run))
    /\ UNCHANGED <<eval_vars, input, lines, idx, current_class, classes, relationships,
                   graph, context_file, synth_vars>>

(***************************************************************************)
(* Properties of the formal context and of the analysis step               *)
(***************************************************************************)

\* the attribute and method strings of one entity
EntityFeatures(c) == Range(c.attributes) \cup Range(c.methods)

AllFeatures == UNION {EntityFeatures(classes[k]) : k \in 1..Len(classes)}

EntityNames == {classes[k].name : k \in 1..Len(classes)}

Entity(name) == classes[DictPos(classes, name)]

\* the table that the entities alone determine
EntityTable(cols, names) ==
    [header |-> << <<>> >> \o cols,
     rows |-> [r \in 1..Len(names) |->
                  <<names[r]>> \o
                  [k \in 1..Len(cols) |->
                      IF cols[k] \in EntityFeatures(Entity(names[r]))
                      THEN <<"X">> ELSE <<>>]]]

ContextWritten == pc = "step4" \/ tool # NotRun

\* C9: for a diagram with at least one feature, the exported context is the
\* table of the entities alone: the columns are the sorted features, the
\* rows the entities sorted by name, a cell is marked exactly when the
\* entity lists the feature; the relationships change nothing in it.
C9_ContextFromEntitiesOnly ==
    (ContextWritten /\ AllFeatures # {})
        => context_file = EntityTable(Sorted(AllFeatures), Sorted(EntityNames))

\* some cell of the context is marked present
HasMarkedCell ==
    \E r \in 1..Len(context_file.rows) :
        \E k \in 2..Len(context_file.rows[r]) : context_file.rows[r][k] # <<>>

ToolUnavailable == tool.mode \in {"missing", "failed"}

\* C1: with the lattice tool unavailable (no executable, no jar, non-zero
\* exit) run() does not raise in the analysis step: it goes on after it.
C1_RunSurvivesUnavailableTool == ToolUnavailable => pc # "raised"

\* C2: analyze() with a tool path that does not exist, on a context written
\* by export_for_fca with at least one marked cell, does not raise and
\* returns at least one concept.
C2_FallbackYieldsConcept ==
    (ToolUnavailable /\ HasMarkedCell) => (exc = "none" /\ concepts # <<>>)

\* C3: a timeout of the lattice subprocess does not leave analyze(): the run
\* goes on after the analysis step.
C3_TimeoutNotPropagated == tool.mode = "timeout" => exc # "TimeoutExpired"

\* the rows of the context that carry a mark in column k
MarkedRows(k) ==
    {context_file.rows[r][1] :
        r \in {q \in 1..Len(context_file.rows) : context_file.rows[q][k] # <<>>}}

\* the concept of column k is among the analyzer's concepts
HasColumnConcept(k) ==
    \E j \in 1..Len(concepts) :
        /\ concepts[j].extent = MarkedRows(k)
        /\ concepts[j].intent = {context_file.header[k]}

\* C22: the fallback yields exactly one concept per feature column of the
\* context: its intent is that feature alone, its extent the rows marked
\* present in that column.
C22_FallbackOneConceptPerColumn ==
    ToolUnavailable =>
        /\ exc = "none"
        /\ Len(concepts) = Cardinality(2..Len(context_file.header))
        /\ \A k \in 2..Len(context_file.header) : HasColumnConcept(k)

(***************************************************************************)
(* FCAAnalyzer._calculate_relevance_scores on a batch of concepts          *)
(***************************************************************************)

MaxBatch == 2

BatchObjects == {<<"A">>, <<"B">>}

BatchFeatures == {<<"+","x">>, <<"-","f","(",")">>}

\* the concepts a batch is made of, not yet scored
BatchConcepts ==
    {FormalConcept(e, i) : e \in SUBSET BatchObjects, i \in SUBSET BatchFeatures}

InitScore ==
    /\ input \in SeqsUpTo(BatchConcepts, MaxBatch)
    /\ concepts = input
    /\ pc = "score"
    /\ exc = "none"
    /\ lines = <<>>
    /\ idx = 0
    /\ current_class = None
    /\ classes = <<>>
    /\ relationships = <<>>
    /\ graph = EmptyGraph
    /\ context_file = EmptyFile
    /\ tool = NotRun
    /\ SynthInit
    /\ EvalInit

\* self._calculate_relevance_scores()
Score ==
    /\ pc = "score"
    /\ concepts' = calculate_relevance_scores(concepts)
    /\ pc' = "scored"
    /\ UNCHANGED <<eval_vars, exc, input, lines, idx, current_class, classes,
                   relationships, graph, context_file, tool, synth_vars>>

NextScore == Score

SpecScore == InitScore /\ [][NextScore]_vars

ExtentSize(k) == Cardinality(input[k].extent)

IntentSize(k) == Cardinality(input[k].intent)

\* the batch maxima, taken over the input
TopExtent == CHOOSE m \in 0..Cardinality(BatchObjects) :
                 /\ \A k \in 1..Len(input) : ExtentSize(k) <= m
                 /\ \E k \in 1..Len(input) : ExtentSize(k) = m

TopIntent == CHOOSE m \in 0..Cardinality(BatchFeatures) :
                 /\ \A k \in 1..Len(input) : IntentSize(k) <= m
                 /\ \E k \in 1..Len(input) : IntentSize(k) = m

ScoreOf(k) == concepts[k].relevance_score

\* score = (|extent| / maxExtent) * (|intent| / maxIntent) * 100
ScoreIsFormula(k) ==
    ScoreOf(k).num * TopExtent * TopIntent
        = ExtentSize(k) * IntentSize(k) * 100 * ScoreOf(k).den

ScoreInRange(k) ==
    /\ ScoreOf(k).den > 0
    /\ 0 <= ScoreOf(k).num
    /\ ScoreOf(k).num <= 100 * ScoreOf(k).den

ScoreIs100(k) == ScoreOf(k).num = 100 * ScoreOf(k).den

TiesMaxima(k) == ExtentSize(k) = TopExtent /\ IntentSize(k) = TopIntent

\* with the same non-empty extent, more intent features score higher
MoreIntentScoresHigher(j, k) ==
    (/\ input[j].extent = input[k].extent
     /\ input[j].extent # {}
     /\ IntentSize(j) > IntentSize(k))
        => ScoreOf(j).num * ScoreOf(k).den > ScoreOf(k).num * ScoreOf(j).den

Scored == pc = "scored" /\ input # <<>>

score_at_least(score, min_relevance) == score.num >= min_relevance * score.den

\* a filter with strict thresholds
filter_relevant_concepts_Strict(cs, min_relevance, min_extent_size) ==
    SelectSeq(cs, LAMBDA c :
        /\ c.relevance_score.num > min_relevance * c.relevance_score.den
        /\ Cardinality(c.extent) > min_extent_size)

\* FCAAnalyzer.filter_relevant_concepts
filter_relevant_concepts(cs, min_relevance, min_extent_size) ==
    SelectSeq(cs, LAMBDA c :
        /\ score_at_least(c.relevance_score, min_relevance)
        /\ Cardinality(c.extent) >= min_extent_size)

\* the relevance scores of the concepts handed to the filter: 0, 50 (as the
\* scorer leaves it: 100/2) and 100
FilterScores == {Zero, [num |-> 100, den |-> 2], [num |-> 100, den |-> 1]}

FilterConcepts ==
    [extent : SUBSET BatchObjects, intent : {{<<"+","x">>}},
     relevance_score : FilterScores]

FilterConfigs ==
    [min_relevance : {0, 50, 100}, min_extent_size : {1, 2}]

InitFilter ==
    /\ input \in SeqsUpTo(FilterConcepts, MaxBatch)
    /\ concepts = input
    /\ config \in FilterConfigs
    /\ pc = "filter"
    /\ exc = "none"
    /\ lines = <<>>
    /\ idx = 0
    /\ current_class = None
    /\ classes = <<>>
    /\ relationships = <<>>
    /\ graph = EmptyGraph
    /\ context_file = EmptyFile
    /\ tool = NotRun
    /\ relevant = <<>>
    /\ abstract_classes = <<>>
    /\ service = DefaultService
    /\ named_classes = <<>>
    /\ merged = <<>>
    /\ output_lines = <<>>
    /\ EvalInit

\* analyzer.filter_relevant_concepts(min_relevance, min_extent_size)
Filter ==
    /\ pc = "filter"
    /\ relevant' = filter_relevant_concepts(concepts, config.min_relevance,
                                            config.min_extent_size)
    /\ pc' = "filtered"
    /\ UNCHANGED <<eval_vars, exc, input, lines, idx, current_class, classes,
                   relationships, graph, context_file, tool, concepts,
                   config, abstract_classes, service, named_classes, merged,
                   output_lines>>

NextFilter == Filter

SpecFilter == InitFilter /\ [][NextFilter]_vars

\* concept k of the input reaches both thresholds
Passes(k) ==
    /\ input[k].relevance_score.num
          >= config.min_relevance * input[k].relevance_score.den
    /\ Cardinality(input[k].extent) >= config.min_extent_size

PassingIndices == {k \in 1..Len(input) : Passes(k)}

\* concept k of the input lies exactly on both thresholds
OnBothBoundaries(k) ==
    /\ input[k].relevance_score.num
          = config.min_relevance * input[k].relevance_score.den
    /\ Cardinality(input[k].extent) = config.min_extent_size

\* C11: the filter returns exactly the concepts with score >= min_relevance
\* and extent size >= min_extent_size, in their original order, and leaves
\* the stored concepts as they were; a concept on both boundaries is
\* included, an empty list gives an empty result without error.
C11_FilterExact ==
    pc = "filtered" =>
        /\ exc = "none"
        /\ concepts = input
        /\ Len(relevant) = Cardinality(PassingIndices)
        /\ \A k \in PassingIndices :
              relevant[Cardinality({j \in PassingIndices : j <= k})] = input[k]
        /\ \A k \in 1..Len(input) :
              OnBothBoundaries(k) => \E j \in 1..Len(relevant) : relevant[j] = input[k]

\* a filtered list of two concepts: the first lies on both boundaries and is
\* returned, the second falls short of the relevance threshold and is not
C11_Witness ==
    /\ pc = "filtered"
    /\ Len(input) = 2
    /\ OnBothBoundaries(1)
    /\ config.min_relevance = 50
    /\ ~Passes(2)
    /\ relevant = <<input[1]>>

(***************************************************************************)
(* src/pipeline: the synthesis of abstract classes (step 6)                *)
(*                                                                         *)
(* list(a_set) enumerates a set of strings in an order that depends on the *)
(* hash seed of the process: any order can come out.                       *)
(***************************************************************************)

\* AbstractClass(extent=..., intent=...): no name, confidence 0.0,
\* relevance_score 0.0.  The confidence is kept in hundredths.
AbstractClass(extent, intent) ==
    [extent |-> extent, intent |-> intent, suggested_name |-> None,
     confidence |-> 0, relevance_score |-> Zero]

\* the lists that list(S) can return
Orders(S) ==
    {f \in [1..Cardinality(S) -> S] :
        \A j, k \in 1..Cardinality(S) : j # k => f[j] # f[k]}

\* AbstractClass(extent=list(concept.extent), intent=list(concept.intent))
abstract_class_of(concept) ==
    {AbstractClass(e, i) : e \in Orders(concept.extent),
                           i \in Orders(concept.intent)}

\* a synthesis that leaves out the concepts without intent
RECURSIVE create_abstract_classes_SkipEmpty(_)
create_abstract_classes_SkipEmpty(cs) ==
    IF cs = <<>> THEN {<<>>}
    ELSE IF Head(cs).intent = {}
    THEN create_abstract_classes_SkipEmpty(Tail(cs))
    ELSE {<<a>> \o rest : a \in abstract_class_of(Head(cs)),
                          rest \in create_abstract_classes_SkipEmpty(Tail(cs))}

\* UMLEnhancementPipeline._step_create_abstract_classes: the lists it can
\* return
RECURSIVE create_abstract_classes(_)
create_abstract_classes(cs) ==
    IF cs = <<>> THEN {<<>>}
    ELSE {<<a>> \o rest : a \in abstract_class_of(Head(cs)),
                          rest \in create_abstract_classes(Tail(cs))}

\* class_features of _expand_abstract_class_extents
class_feature_set(uml_class) ==
    Range(uml_class.attributes) \cup Range(uml_class.methods)

\* an expansion that asks for the class features to lie within the intent
added_names_Reversed(current_extent, intent, all_classes) ==
    LET hit == SelectSeq(all_classes, LAMBDA c :
                   /\ c.name \notin current_extent
                   /\ class_feature_set(c) \subseteq Range(intent))
    IN [k \in 1..Len(hit) |-> hit[k].name]

\* the names that the loop over all_classes.items() appends, in dict order
added_names(current_extent, intent, all_classes) ==
    LET hit == SelectSeq(all_classes, LAMBDA c :
                   /\ c.name \notin current_extent
                   /\ Range(intent) \subseteq class_feature_set(c))
    IN [k \in 1..Len(hit) |-> hit[k].name]

\* the body of the loop over abstract_classes
expand_abstract_class(ac, all_classes) ==
    [ac EXCEPT !.extent = @ \o added_names(Range(ac.extent), ac.intent,
                                           all_classes)]

\* UMLEnhancementPipeline._expand_abstract_class_extents
expand_abstract_class_extents(acs, all_classes) ==
    [k \in 1..Len(acs) |-> expand_abstract_class(acs[k], all_classes)]

\* the objects named by the concepts handed to the synthesis; Z is no entity
SynthExtents == {{}, {<<"A">>}, {<<"A">>, <<"B">>}, {<<"B">>, <<"Z">>}}

SynthIntents == {{}, {<<"+","x">>}, {<<"+","x">>, <<"-","f","(",")">>}}

SynthConcepts ==
    [extent : SynthExtents, intent : SynthIntents,
     relevance_score : {[num |-> 100, den |-> 2]}]

Entity_(name, attributes, methods) ==
    [name |-> name, attributes |-> attributes, methods |-> methods]

\* the entities of the diagram, as parse() leaves them
SynthEntities == {
    <<>>,
    << Entity_(<<"A">>, << <<"+","x">> >>, <<>>) >>,
    << Entity_(<<"A">>, << <<"+","x">> >>, << <<"-","f","(",")">> >>),
       Entity_(<<"B">>, << <<"+","x">> >>, <<>>) >>,
    << Entity_(<<"B">>, <<>>, << <<"-","f","(",")">> >>),
       Entity_(<<"A">>, <<>>, <<>>) >>,
    << Entity_(<<"A">>, << <<"+","x">>, <<"+","y">> >>, <<>>),
       Entity_(<<"B">>, << <<"+","y">> >>, << <<"-","f","(",")">> >>) >>}

InitSynth ==
    /\ input \in SeqsUpTo(SynthConcepts, MaxBatch)
    /\ relevant = input
    /\ classes \in SynthEntities
    /\ pc = "create"
    /\ exc = "none"
    /\ lines = <<>>
    /\ idx = 0
    /\ current_class = None
    /\ relationships = <<>>
    /\ graph = EmptyGraph
    /\ context_file = EmptyFile
    /\ tool = NotRun
    /\ concepts = <<>>
    /\ config = DefaultConfig
    /\ abstract_classes = <<>>
    /\ service = DefaultService
    /\ named_classes = <<>>
    /\ merged = <<>>
    /\ output_lines = <<>>
    /\ EvalInit

\* abstract_classes = self._step_create_abstract_classes(relevant_concepts)
Create ==
    /\ pc = "create"
    /\ abstract_classes' \in create_abstract_classes(relevant)
    /\ pc' = "created"
    /\ UNCHANGED <<eval_vars, exc, input, lines, idx, current_class, classes,
                   relationships, graph, context_file, tool, concepts,
                   config, relevant, service, named_classes, merged,
                   output_lines>>

\* abstract_classes = self._expand_abstract_class_extents(abstract_classes,
\*                                                        parsed_data["classes"])
Expand ==
    /\ pc = "created"
    /\ abstract_classes' = expand_abstract_class_extents(abstract_classes,
                                                         classes)
    /\ pc' = "expanded"
    /\ UNCHANGED <<eval_vars, exc, input, lines, idx, current_class, classes,
                   relationships, graph, context_file, tool, concepts,
                   config, relevant, service, named_classes, merged,
                   output_lines>>

NextSynth == Create \/ Expand

SpecSynth == InitSynth /\ [][NextSynth]_vars

\* the list l holds exactly the elements of the set S, each once
ListsExactly(l, S) == Range(l) = S /\ Len(l) = Cardinality(S)

\* C12: one candidate per filtered concept, in the same order, whose extent
\* and intent hold exactly the elements of the concept's extent and intent,
\* and no name yet.
C12_OneCandidatePerConcept ==
    pc = "created" =>
        /\ Len(abstract_classes) = Len(input)
        /\ \A k \in 1..Len(input) :
              /\ ListsExactly(abstract_classes[k].extent, input[k].extent)
              /\ ListsExactly(abstract_classes[k].intent, input[k].intent)
              /\ abstract_classes[k].suggested_name = None

\* two concepts, the first without intent and the second with two objects
\* and two features, have become two candidates
C12_Witness ==
    /\ pc = "created"
    /\ Len(input) = 2
    /\ input[1].intent = {}
    /\ Cardinality(input[2].extent) = 2
    /\ Cardinality(input[2].intent) = 2
    /\ Len(abstract_classes) = 2
    /\ abstract_classes[2].extent[1] = <<"B">>

\* the entity at position e of the diagram qualifies for candidate k
Qualifies(e, k) ==
    input[k].intent \subseteq
        (Range(classes[e].attributes) \cup Range(classes[e].methods))

\* C14: after the expansion every entity whose features include the
\* candidate's intent is in the candidate's extent, and every name that was
\* in the extent before is still in it.
C14_ExpansionComplete ==
    pc = "expanded" =>
        \A k \in 1..Len(abstract_classes) :
            /\ \A e \in 1..Len(classes) :
                  Qualifies(e, k) =>
                      classes[e].name \in Range(abstract_classes[k].extent)
            /\ input[k].extent \subseteq Range(abstract_classes[k].extent)

\* entity B, in neither extent before the expansion, has been added to both
\* candidates
C14_Witness ==
    /\ pc = "expanded"
    /\ Len(input) = 2
    /\ input[1].extent = {<<"A">>}
    /\ input[2].extent = {}
    /\ input[1].intent # {}
    /\ <<"B">> \in Range(abstract_classes[1].extent)
    /\ <<"B">> \in Range(abstract_classes[2].extent)

(***************************************************************************)
(* src/pipeline: UMLEnhancementPipeline.run(), steps 5 and 6               *)
(***************************************************************************)

\* Step 5: fca_analyzer.filter_relevant_concepts
StepFilter ==
    /\ pc = "step5"
    /\ relevant' = filter_relevant_concepts(concepts, config.min_relevance,
                                            config.min_extent_size)
    /\ pc' = "step6"
    /\ UNCHANGED <<eval_vars, exc, input, lines, idx, current_class, classes,
                   relationships, graph, context_file, tool, concepts,
                   config, abstract_classes, service, named_classes, merged,
                   output_lines>>

\* Step 6, first call: _step_create_abstract_classes
StepCreate ==
    /\ pc = "step6"
    /\ abstract_classes' \in create_abstract_classes(relevant)
    /\ pc' = "step6_expand"
    /\ UNCHANGED <<eval_vars, exc, input, lines, idx, current_class, classes,
                   relationships, graph, context_file, tool, concepts,
                   config, relevant, service, named_classes, merged,
                   output_lines>>

\* Step 6, second call: _expand_abstract_class_extents
StepExpand ==
    /\ pc = "step6_expand"
    /\ abstract_classes' = expand_abstract_class_extents(abstract_classes,
                                                         classes)
    /\ pc' = "step7"
    /\ UNCHANGED <<eval_vars, exc, input, lines, idx, current_class, classes,
                   relationships, graph, context_file, tool, concepts,
                   config, relevant, service, named_classes, merged,
                   output_lines>>

\* two scores are the same number
SameScore(a, b) == a.num * b.den = b.num * a.den

\* C13: every candidate created in a run carries the relevance score of the
\* concept it was created from.
C13_CandidateCarriesScore ==
    pc \in {"step6_expand", "step7"} =>
        \A k \in 1..Len(abstract_classes) :
            SameScore(abstract_classes[k].relevance_score,
                      relevant[k].relevance_score)

(***************************************************************************)
(* src/llm_naming: LLMNamingService                                        *)
(*                                                                         *)
(* Confidence values are kept in hundredths (0.9 is 90).  The external     *)
(* naming call is the environment: it raises or returns a text.            *)
(***************************************************************************)

\* c.lower() and c.upper() for one ASCII character
lower_char(c) == IF c \in Upper THEN Ascii[Ord(c) + 32 - 31] ELSE c

upper_char(c) == IF c \in Lower THEN Ascii[Ord(c) - 32 - 31] ELSE c

\* s.lower()
text_lower(s) == [k \in 1..Len(s) |-> lower_char(s[k])]

\* s.title(): a letter that follows a letter is lowered, any other letter
\* is raised
text_title(s) ==
    [k \in 1..Len(s) |->
        IF k > 1 /\ s[k - 1] \in (Lower \cup Upper)
        THEN lower_char(s[k]) ELSE upper_char(s[k])]

\* " ".join(l)
RECURSIVE join_spaces(_)
join_spaces(l) ==
    IF l = <<>> THEN <<>>
    ELSE IF Len(l) = 1 THEN l[1]
    ELSE l[1] \o <<" ">> \o join_spaces(Tail(l))

\* s.lstrip(chars) and s.strip(chars) for a set of characters
lstrip_chars(s, cs) == Drop(s, Span(s, cs))

RECURSIVE rstrip_chars(_, _)
rstrip_chars(s, cs) ==
    IF s # <<>> /\ s[Len(s)] \in cs
    THEN rstrip_chars(SubSeq(s, 1, Len(s) - 1), cs) ELSE s

strip_chars(s, cs) == rstrip_chars(lstrip_chars(s, cs), cs)

\* the part of s before the first occurrence of the character c
before_char(s, c) == Take(s, SpanNot(s, {c}))

\* "".join(c for c in name if c.isalnum() or c in ("_", " "))
keep_name_chars(s) ==
    SelectSeq(s, LAMBDA c : c \in Lower \cup Upper \cup Digit \cup {"_", " "})

\* name.replace("_", " ").title().replace(" ", "")
pascal_case(s) ==
    SelectSeq(text_title([k \in 1..Len(s) |-> IF s[k] = "_" THEN " " ELSE s[k]]),
              LAMBDA c : c # " ")

\* the name before the colon, stripped, when there is a colon
before_colon(s) ==
    IF \E k \in 1..Len(s) : s[k] = ":" THEN Strip(before_char(s, ":")) ELSE s

\* LLMNamingService._sanitize_class_name
sanitize_class_name(name) ==
    pascal_case(keep_name_chars(before_colon(
        lstrip_chars(name, {"+", "-", "#", "~"}))))

\* the first line of a text
first_line(s) ==
    IF \E k \in 1..Len(s) : s[k] = "\n" THEN before_char(s, "\n") ELSE s

\* LLMNamingService._parse_llm_response
parse_llm_response(response) ==
    sanitize_class_name(first_line(
        strip_chars(strip_chars(Strip(response), {Quote}), {"'"})))

Abstract_ == <<"A","b","s","t","r","a","c","t">>

AuthKeywords == {
    <<"p","a","s","s","w","o","r","d">>,
    <<"m","o","t","d","e","p","a","s","s","e">>, <<"e","m","a","i","l">>,
    <<"l","o","g","i","n">>,
    <<"s","e","c","o","n","n","e","c","t","e","r">>,
    <<"a","u","t","h","e","n","t","i","c","a","t","e">>}

IdTokens == {<<"i","d"," ",":">>, <<"i","d",":">>}

NameTokens == {
    <<"n","o","m">>, <<"n","a","m","e">>, <<"t","i","t","l","e">>,
    <<"l","a","b","e","l">>}

NameColonTokens == {
    <<"n","o","m"," ",":">>, <<"n","a","m","e",":">>,
    <<"t","i","t","l","e",":">>, <<"l","a","b","e","l",":">>}

ContainsAny(s, tokens) == \E t \in tokens : Contains(s, t)

\* the name chosen for a non-empty intent; intent_str is the joined,
\* lowered intent
semantic_name(intent, intent_str) ==
    IF ContainsAny(intent_str, AuthKeywords)
    THEN IF Len(intent) >= 3 THEN Abstract_ \o <<"U","s","e","r">>
         ELSE Abstract_ \o <<"A","u","t","h","e","n","t","i","c","a","t","a","b","l","e">>
    ELSE IF ContainsAny(intent_str, IdTokens)
    THEN IF ContainsAny(intent_str, NameTokens) THEN Abstract_ \o <<"E","n","t","i","t","y">>
         ELSE Abstract_ \o <<"I","d","e","n","t","i","f","i","a","b","l","e">>
    ELSE IF ContainsAny(intent_str, NameColonTokens)
    THEN IF Contains(intent_str, <<"t","i","t","l","e">>)
         THEN Abstract_ \o <<"T","i","t","l","e","d">>
         ELSE Abstract_ \o <<"N","a","m","e","d">>
    ELSE Abstract_ \o sanitize_class_name(intent[1])

\* the name chosen for an empty intent
extent_name(extent) ==
    IF Len(extent) > 0 THEN Abstract_ \o extent[1] ELSE Abstract_ \o <<"B","a","s","e">>

\* LLMNamingService._fallback_naming
fallback_naming(ac) ==
    IF ac.intent = <<>>
    THEN [ac EXCEPT !.suggested_name = extent_name(ac.extent),
                    !.confidence = 30]
    ELSE [ac EXCEPT !.suggested_name =
                        semantic_name(ac.intent,
                                      text_lower(join_spaces(ac.intent))),
                    !.confidence = 50]

\* what a call of the external naming service does
Raises == [kind |-> "raise"]

Responds(text) == [kind |-> "response", text |-> text]

\* the exception of the external call leaving name_abstract_class
Raised == [kind |-> "raised"]

\* a naming without the except clause
name_abstract_class_NoCatch(svc, ac, outcome) ==
    IF ~svc.client THEN fallback_naming(ac)
    ELSE IF svc.provider \notin {"openai", "anthropic"} THEN fallback_naming(ac)
    ELSE IF outcome.kind = "raise" THEN Raised
    ELSE [ac EXCEPT !.suggested_name = parse_llm_response(outcome.text),
                    !.confidence = 90]

\* LLMNamingService.name_abstract_class; outcome is what the external call
\* does if it is made
name_abstract_class(svc, ac, outcome) ==
    IF ~svc.client THEN fallback_naming(ac)
    ELSE IF svc.provider \notin {"openai", "anthropic"} THEN fallback_naming(ac)
    ELSE IF outcome.kind = "raise" THEN fallback_naming(ac)
    ELSE [ac EXCEPT !.suggested_name = parse_llm_response(outcome.text),
                    !.confidence = 90]

(***************************************************************************)
(* Fallback naming of one candidate                                        *)
(***************************************************************************)

MaxIntent == 3

FallbackFeatures == {
    <<"+","e","m","a","i","l",":"," ","S","t","r","i","n","g">>,
    <<"+","i","d",":"," ","i","n","t">>,
    <<"+","n","a","m","e",":"," ","S","t","r","i","n","g">>,
    <<"+","t","i","t","l","e",":"," ","S","t","r","i","n","g">>,
    <<"+","s","p","e","e","d">>, <<"n","a","m","e">>}

FallbackExtents == {<<>>, <<<<"D","o","g">>, <<"C","a","t">>>>}

\* the variables of the parser and of the analysis, at rest
StagesIdle ==
    /\ exc = "none"
    /\ lines = <<>>
    /\ idx = 0
    /\ current_class = None
    /\ classes = <<>>
    /\ relationships = <<>>
    /\ graph = EmptyGraph
    /\ context_file = EmptyFile
    /\ tool = NotRun
    /\ concepts = <<>>
    /\ config = DefaultConfig
    /\ relevant = <<>>

InitFallback ==
    /\ \E extent \in FallbackExtents :
       \E intent \in SeqsUpTo(FallbackFeatures, MaxIntent) :
           input = AbstractClass(extent, intent)
    /\ abstract_classes = <<input>>
    /\ pc = "fallback"
    /\ StagesIdle
    /\ service = DefaultService
    /\ named_classes = <<>>
    /\ merged = <<>>
    /\ output_lines = <<>>
    /\ EvalInit

\* result = service._fallback_naming(ac)
Fallback ==
    /\ pc = "fallback"
    /\ abstract_classes' = <<fallback_naming(abstract_classes[1])>>
    /\ pc' = "fallback_named"
    /\ UNCHANGED <<eval_vars, exc, input, lines, idx, current_class, classes,
                   relationships, graph, context_file, tool, concepts,
                   config, relevant, service, named_classes, merged,
                   output_lines>>

NextFallback == Fallback

SpecFallback == InitFallback /\ [][NextFallback]_vars

\* C17: whenever fallback naming has been applied, the candidate's
\* confidence is the one fixed fallback value (0.5, the value the fallback
\* sets for a candidate with features), whatever the extent and the intent,
\* an empty intent included, and that value is below the 0.9 of the
\* external-naming path.
C17_FallbackConfidenceFixed ==
    pc = "fallback_named" =>
        /\ abstract_classes[1].confidence = 50
        /\ abstract_classes[1].confidence < 90

\* the rules of the fallback policy, read on the joined, lowered intent
MatchesAuth(s) == ContainsAny(s, AuthKeywords)

MatchesId(s) == ContainsAny(s, IdTokens)

HasNameToken(s) == ContainsAny(s, NameTokens)

FirstMatchWins(ac, before, s) ==
    /\ before.intent = <<>> =>
           ac.suggested_name =
               IF before.extent = <<>> THEN Abstract_ \o <<"B","a","s","e">>
               ELSE Abstract_ \o before.extent[1]
    /\ before.intent # <<>> /\ MatchesAuth(s) =>
           ac.suggested_name =
               IF Len(before.intent) >= 3 THEN Abstract_ \o <<"U","s","e","r">>
               ELSE Abstract_ \o <<"A","u","t","h","e","n","t","i","c","a","t","a","b","l","e">>
    /\ before.intent # <<>> /\ ~MatchesAuth(s) /\ MatchesId(s) =>
           ac.suggested_name =
               IF HasNameToken(s) THEN Abstract_ \o <<"E","n","t","i","t","y">>
               ELSE Abstract_ \o <<"I","d","e","n","t","i","f","i","a","b","l","e">>
    /\ before.intent # <<>> /\ ~MatchesAuth(s) /\ ~MatchesId(s)
           /\ HasNameToken(s) =>
           ac.suggested_name \in {Abstract_ \o <<"T","i","t","l","e","d">>, Abstract_ \o <<"N","a","m","e","d">>}
    /\ before.intent # <<>> /\ ~MatchesAuth(s) /\ ~MatchesId(s)
           /\ ~HasNameToken(s) =>
           ac.suggested_name = Abstract_ \o sanitize_class_name(before.intent[1])

\* C18: the fallback name is decided by the first matching rule in the
\* order empty intent, authentication keyword, identifier token,
\* name/title/label token, generic: authentication wins over identifier and
\* name (AbstractUser from 3 features on, else AbstractAuthenticatable);
\* identifier without authentication gives AbstractEntity when a
\* name/title/label token is present and AbstractIdentifiable otherwise; a
\* name/title/label token with no earlier match gives AbstractTitled or
\* AbstractNamed; only an intent matching none of the rules gets
\* Abstract<sanitized first feature>.
C18_FallbackFirstMatch ==
    pc = "fallback_named" =>
        FirstMatchWins(abstract_classes[1], input,
                       text_lower(join_spaces(input.intent)))

(***************************************************************************)
(* LLMNamingService.batch_name_abstract_classes, one candidate per step    *)
(*                                                                         *)
(* input holds the candidates given to the batch and, for each of them,    *)
(* what the external call does if it is made for that candidate.           *)
(***************************************************************************)

\* the service after __init__: a client exists only for a known provider
\* with a credential
Services == {
    [provider |-> "openai", client |-> TRUE],
    [provider |-> "anthropic", client |-> TRUE],
    [provider |-> "openai", client |-> FALSE],
    [provider |-> "other", client |-> FALSE]}

NameCandidates == {
    AbstractClass(<<<<"D","o","g">>>>, <<>>),
    AbstractClass(<<<<"D","o","g">>, <<"C","a","t">>>>, <<<<"+","s","p","e","e","d">>>>),
    AbstractClass(<<<<"D","o","g">>, <<"C","a","t">>>>, <<<<"+","e","m","a","i","l",":"," ","S","t","r","i","n","g">>>>)}

LlmOutcomes == {
    Raises,
    Responds(<<"a","n","i","m","a","l">>),
    Responds(<<"\"","N","a","m","e","d","\"","\n","b","e","c","a","u","s","e">>),
    Responds(<<>>)}

InitName ==
    /\ \E n \in 0..MaxBatch :
           input \in [candidates : [1..n -> NameCandidates],
                      outcomes : [1..n -> LlmOutcomes]]
    /\ abstract_classes = input.candidates
    /\ service \in Services
    /\ pc = "naming"
    /\ StagesIdle
    /\ named_classes = <<>>
    /\ merged = <<>>
    /\ output_lines = <<>>
    /\ EvalInit

\* the result of naming a candidate reaches the batch: the exception ends
\* the batch, a candidate is appended (it is the object of the given list)
NameResult(k, result) ==
    IF result = Raised
    THEN /\ exc' = "Exception"
         /\ pc' = "raised"
         /\ UNCHANGED <<abstract_classes, named_classes>>
    ELSE /\ abstract_classes' = [abstract_classes EXCEPT ![k] = result]
         /\ named_classes' = Append(named_classes, result)
         /\ UNCHANGED <<exc, pc>>

\* named_class = self.name_abstract_class(abstract_class)
\* named_classes.append(named_class)
NameOne ==
    /\ pc = "naming"
    /\ Len(named_classes) < Len(abstract_classes)
    /\ NameResult(Len(named_classes) + 1,
                  name_abstract_class(service,
                                      abstract_classes[Len(named_classes) + 1],
                                      input.outcomes[Len(named_classes) + 1]))
    /\ UNCHANGED <<eval_vars, input, lines, idx, current_class, classes, relationships,
                   graph, context_file, tool, concepts, config, relevant,
                   service, merged, output_lines>>

\* return named_classes
NameReturn ==
    /\ pc = "naming"
    /\ Len(named_classes) = Len(abstract_classes)
    /\ pc' = "named"
    /\ UNCHANGED <<eval_vars, exc, input, lines, idx, current_class, classes,
                   relationships, graph, context_file, tool, concepts,
                   synth_vars>>

NextName == NameOne \/ NameReturn

SpecName == InitName /\ [][NextName]_vars

\* the external call is made for candidate k and fails
CallFails(k) == service.client /\ input.outcomes[k].kind = "raise"

\* the external call is made for candidate k and answers
CallAnswers(k) == service.client /\ input.outcomes[k].kind = "response"

\* candidate k as its own naming path leaves it
OwnPath(k) ==
    IF CallAnswers(k)
    THEN [input.candidates[k] EXCEPT
              !.suggested_name = parse_llm_response(input.outcomes[k].text),
              !.confidence = 90]
    ELSE fallback_naming(input.candidates[k])

\* C16: in batch naming the batch never raises; the candidates named so far
\* are the given ones in the given order, each with a name and with the name
\* and confidence of its own path (the external answer where the call
\* answered; fallback naming where it failed, where no credential exists or
\* where the provider is unknown), whatever happened to the others; and the
\* returned list has as many candidates as the given one.
C16_BatchNamingIsolated ==
    /\ exc = "none"
    /\ pc # "raised"
    /\ Len(named_classes) <= Len(input.candidates)
    /\ \A k \in 1..Len(named_classes) :
           /\ named_classes[k] = OwnPath(k)
           /\ named_classes[k].suggested_name # None
           /\ named_classes[k].extent = input.candidates[k].extent
           /\ named_classes[k].intent = input.candidates[k].intent
    /\ pc = "named" => Len(named_classes) = Len(input.candidates)

\* a returned batch in which the call failed for one candidate, which got
\* its fallback name, and answered for another one, which kept the
\* answered name and the confidence 0.9
C16_Witness ==
    /\ pc = "named"
    /\ \E f \in 1..Len(named_classes) : \E o \in 1..Len(named_classes) :
           /\ CallFails(f)
           /\ named_classes[f].confidence < 90
           /\ named_classes[f].suggested_name # None
           /\ CallAnswers(o)
           /\ named_classes[o].confidence = 90
           /\ named_classes[o].suggested_name = <<"A","n","i","m","a","l">>

(***************************************************************************)
(* src/generator: PlantUMLGenerator                                        *)
(*                                                                         *)
(* list(set) gives the members in an order the program does not choose,    *)
(* so the merge has a set of possible results.                             *)
(***************************************************************************)

\* a < b for two scores
score_less(a, b) == a.num * b.den < b.num * a.den

\* the keys of name_groups, in insertion order
RECURSIVE name_groups(_, _)
name_groups(acs, seen) ==
    IF acs = <<>> THEN <<>>
    ELSE IF Head(acs).suggested_name \in seen
    THEN name_groups(Tail(acs), seen)
    ELSE <<Head(acs).suggested_name>>
         \o name_groups(Tail(acs), seen \cup {Head(acs).suggested_name})

\* the positions of the candidates called name
group_of(acs, name) == {k \in 1..Len(acs) : acs[k].suggested_name = name}

\* a base that is the first candidate of the group, whatever the scores
base_index_First(acs, name) ==
    CHOOSE k \in group_of(acs, name) : \A j \in group_of(acs, name) : k <= j

\* classes.sort(key=relevance_score, reverse=True); base = classes[0]: the
\* sort is stable, the base is the first candidate with the highest score
base_index(acs, name) ==
    CHOOSE k \in group_of(acs, name) :
        \A j \in group_of(acs, name) :
            /\ ~score_less(acs[k].relevance_score, acs[j].relevance_score)
            /\ j < k => score_less(acs[j].relevance_score,
                                   acs[k].relevance_score)

merged_extent(acs, name) ==
    UNION {Range(acs[k].extent) : k \in group_of(acs, name)}

merged_intent(acs, name) ==
    UNION {Range(acs[k].intent) : k \in group_of(acs, name)}

\* what is appended to merged for one name
merge_group(acs, name) ==
    IF Cardinality(group_of(acs, name)) = 1
    THEN {acs[base_index(acs, name)]}
    ELSE {[acs[base_index(acs, name)] EXCEPT !.extent = e, !.intent = i] :
              e \in Orders(merged_extent(acs, name)),
              i \in Orders(merged_intent(acs, name))}

RECURSIVE merge_groups(_, _)
merge_groups(acs, names) ==
    IF names = <<>> THEN {<<>>}
    ELSE {<<m>> \o rest : m \in merge_group(acs, Head(names)),
                          rest \in merge_groups(acs, Tail(names))}

\* PlantUMLGenerator._deduplicate_abstract_class_names: the possible
\* returned lists
deduplicate_abstract_class_names(acs) ==
    merge_groups(acs, name_groups(acs, {}))

\* the given list after the merge: the base of a group is the object that
\* was updated
after_merge(acs, result) ==
    [k \in 1..Len(acs) |->
        IF k = base_index(acs, acs[k].suggested_name)
        THEN CHOOSE m \in Range(result) :
                 m.suggested_name = acs[k].suggested_name
        ELSE acs[k]]

\* an inheritance map that gives every class the features of every candidate
inherited_features_AnyExtent(acs, class_name) ==
    UNION {Range(acs[k].intent) : k \in 1..Len(acs)}

\* inheritance_map.get(class_name, set()) of _build_inheritance_map
inherited_features(acs, class_name) ==
    UNION {Range(acs[k].intent) :
              k \in {j \in 1..Len(acs) : class_name \in Range(acs[j].extent)}}

\* f"  {feature}" for every feature
indented(features) ==
    [k \in 1..Len(features) |-> <<" ", " ">> \o features[k]]

\* PlantUMLGenerator._generate_abstract_class
generate_abstract_class(ac) ==
    <<<<"a","b","s","t","r","a","c","t"," ","c","l","a","s","s"," ">> \o ac.suggested_name \o <<" ", "{">>>>
    \o indented(ac.intent) \o <<<<"}">>>>

\* a block that drops the inherited attributes and keeps every method
generate_class_AllMethods(uml_class, inherited) ==
    <<<<"c","l","a","s","s"," ">> \o uml_class.name \o <<" ", "{">>>>
    \o indented(SelectSeq(uml_class.attributes, LAMBDA f : f \notin inherited))
    \o indented(uml_class.methods)
    \o <<<<"}">>>>

\* PlantUMLGenerator._generate_class
generate_class(uml_class, inherited) ==
    <<<<"c","l","a","s","s"," ">> \o uml_class.name \o <<" ", "{">>>>
    \o indented(SelectSeq(uml_class.attributes, LAMBDA f : f \notin inherited))
    \o indented(SelectSeq(uml_class.methods, LAMBDA f : f \notin inherited))
    \o <<<<"}">>>>

\* the concatenation of the members of a list of lists
RECURSIVE flatten(_)
flatten(ls) == IF ls = <<>> THEN <<>> ELSE Head(ls) \o flatten(Tail(ls))

\* inheritance lines for the first member of each extent only
inheritance_lines_FirstMember(ac) ==
    [k \in 1..(IF ac.extent = <<>> THEN 0 ELSE 1) |->
        ac.extent[k] \o <<" ","-","-","|",">"," ">> \o ac.suggested_name]

\* f"{child_class} --|> {abstract_class.suggested_name}" for one candidate
inheritance_lines(ac) ==
    [k \in 1..Len(ac.extent) |->
        ac.extent[k] \o <<" ","-","-","|",">"," ">> \o ac.suggested_name]

\* symbol_map.get(relationship.relationship_type, "--")
symbol_of(relationship_type) ==
    IF relationship_type = "inheritance" THEN <<"-","-","|",">">>
    ELSE IF relationship_type = "composition" THEN <<"*","-","-">>
    ELSE IF relationship_type = "aggregation" THEN <<"o","-","-">>
    ELSE <<"-","-">>

\* a value that counts as true in a condition
Truthy(text) == text # None /\ text # <<>>

\* f' "{cardinality}"' when there is one
card_part(cardinality) ==
    IF Truthy(cardinality) THEN <<" ", Quote>> \o cardinality \o <<Quote>>
    ELSE <<>>

\* a relationship line with the target cardinality after the target
generate_relationship_CardLast(rel) ==
    rel.source \o card_part(rel.cardinality_source) \o <<" ">>
    \o symbol_of(rel.relationship_type) \o <<" ">> \o rel.target
    \o card_part(rel.cardinality_target)
    \o (IF Truthy(rel.label) THEN <<" ", ":", " ">> \o rel.label ELSE <<>>)

\* PlantUMLGenerator._generate_relationship
generate_relationship(rel) ==
    rel.source \o card_part(rel.cardinality_source) \o <<" ">>
    \o symbol_of(rel.relationship_type)
    \o card_part(rel.cardinality_target) \o <<" ">> \o rel.target
    \o (IF Truthy(rel.label) THEN <<" ", ":", " ">> \o rel.label ELSE <<>>)

\* the comment lines that open the four parts of the generated diagram
H_Abstract ==
    <<"'"," ","A","b","s","t","r","a","c","t"," ","C","l","a","s","s","e","s"," ","(","G","e","n","e","r","a","t","e","d",")">>

H_Classes ==
    <<"'"," ","O","r","i","g","i","n","a","l"," ","C","l","a","s","s","e","s">>

H_Inheritance ==
    <<"'"," ","I","n","h","e","r","i","t","a","n","c","e"," ","R","e","l","a","t","i","o","n","s","h","i","p","s"," ","t","o">>
    \o <<" ","A","b","s","t","r","a","c","t"," ","C","l","a","s","s","e","s">>

H_Relationships ==
    <<"'"," ","O","r","i","g","i","n","a","l"," ","R","e","l","a","t","i","o","n","s","h","i","p","s">>

\* the lines of generate() for the merged candidates acs
generated_lines(acs, original_classes, original_relationships) ==
    << <<"@","s","t","a","r","t","u","m","l">>, <<>>, H_Abstract >>
    \o flatten([k \in 1..Len(acs) |-> generate_abstract_class(acs[k])])
    \o << <<>>, H_Classes >>
    \o flatten([k \in 1..Len(original_classes) |->
                   generate_class(original_classes[k],
                       inherited_features(acs, original_classes[k].name))])
    \o << <<>>, H_Inheritance >>
    \o flatten([k \in 1..Len(acs) |-> inheritance_lines(acs[k])])
    \o << <<>>, H_Relationships >>
    \o [k \in 1..Len(original_relationships) |->
           generate_relationship(original_relationships[k])]
    \o << <<>>, <<"@","e","n","d","u","m","l">> >>

(***************************************************************************)
(* The generator on named candidates: the merge alone, and generate()      *)
(***************************************************************************)

GenNames == {Abstract_ \o <<"U","s","e","r">>, Abstract_ \o <<"S","p","e","e","d">>}

GenScores == {[num |-> 50, den |-> 1], [num |-> 75, den |-> 1]}

\* extent and intent of the candidates
GenShapes == {
    [extent |-> <<<<"A">>>>, intent |-> <<<<"+","x">>>>],
    [extent |-> <<<<"B">>, <<"A">>>>, intent |-> <<<<"+","y">>, <<"-","f","(",")">>>>]}

GenCandidates ==
    {[AbstractClass(s.extent, s.intent) EXCEPT
          !.suggested_name = n, !.confidence = 50, !.relevance_score = r] :
      s \in GenShapes, n \in GenNames, r \in GenScores}

GenEntities == {
    << Entity_(<<"A">>, <<<<"+","x">>, <<"+","y">>>>, <<<<"-","f","(",")">>>>),
       Entity_(<<"B">>, <<<<"+","y">>>>, <<<<"-","f","(",")">>, <<"-","g","(",")">>>>),
       Entity_(<<"C">>, <<<<"+","x">>>>, <<>>) >>,
    << Entity_(<<"C">>, <<>>, <<<<"-","f","(",")">>>>),
       Entity_(<<"A">>, <<<<"+","y">>, <<"+","x">>>>, <<>>) >>}

Relationship_(source, target, relationship_type, cs, ct, label) ==
    [source |-> source, target |-> target,
     relationship_type |-> relationship_type,
     cardinality_source |-> cs, cardinality_target |-> ct, label |-> label]

GenRelationships == {
    <<>>,
    << Relationship_(<<"A">>, <<"B">>, "composition", <<"1">>, <<"*">>, <<"o","w","n","s">>),
       Relationship_(<<"C">>, <<"A">>, "inheritance", None, None, None),
       Relationship_(<<"A">>, <<"B">>, "association", None, <<"1">>, None) >>}

InitGen ==
    /\ input \in SeqsUpTo(GenCandidates, MaxBatch)
    /\ named_classes = input
    /\ abstract_classes = input
    /\ classes \in GenEntities
    /\ relationships \in GenRelationships
    /\ pc = "generator"
    /\ exc = "none"
    /\ lines = <<>>
    /\ idx = 0
    /\ current_class = None
    /\ graph = EmptyGraph
    /\ context_file = EmptyFile
    /\ tool = NotRun
    /\ concepts = <<>>
    /\ config = DefaultConfig
    /\ relevant = <<>>
    /\ service = DefaultService
    /\ merged = <<>>
    /\ output_lines = <<>>
    /\ EvalInit

\* the merged list reaches the caller, and the bases of the given list are
\* the updated objects
Merged(result) ==
    /\ merged' = result
    /\ named_classes' = after_merge(named_classes, result)
    /\ abstract_classes' = named_classes'

\* merged = generator._deduplicate_abstract_class_names(abstract_classes)
Deduplicate ==
    /\ pc = "generator"
    /\ \E result \in deduplicate_abstract_class_names(named_classes) :
           Merged(result)
    /\ pc' = "deduplicated"
    /\ UNCHANGED <<eval_vars, exc, input, lines, idx, current_class, classes,
                   relationships, graph, context_file, tool, concepts,
                   config, relevant, service, output_lines>>

\* generator.generate(classes, relationships, abstract_classes, output_path)
Generate ==
    /\ pc = "generator"
    /\ \E result \in deduplicate_abstract_class_names(named_classes) :
           /\ Merged(result)
           /\ output_lines' = generated_lines(result, classes, relationships)
    /\ pc' = "generated"
    /\ UNCHANGED <<eval_vars, exc, input, lines, idx, current_class, classes,
                   relationships, graph, context_file, tool, concepts,
                   config, relevant, service>>

NextGen == Deduplicate \/ Generate

SpecGen == InitGen /\ [][NextGen]_vars

\* the positions, in the given list, of the candidates with the name of m
GroupOf(m) ==
    {k \in 1..Len(input) : input[k].suggested_name = m.suggested_name}

\* the position of the first candidate with the name of m
FirstOf(m) == CHOOSE k \in GroupOf(m) : \A j \in GroupOf(m) : k <= j

\* m has the highest score of the scores of its group
HasMaxScore(m) ==
    /\ \E k \in GroupOf(m) : m.relevance_score = input[k].relevance_score
    /\ \A k \in GroupOf(m) :
           ~score_less(m.relevance_score, input[k].relevance_score)

\* C15: the merge returns one candidate per distinct suggested name, the
\* names in the order of their first occurrence; the candidate of a name
\* carried once is that candidate, unchanged; the candidate of a name
\* carried several times has the highest relevance score of the group, and
\* its extent and its intent are, as sets, the unions of the extents and of
\* the intents of the group.
C15_MergePerName ==
    pc = "deduplicated" =>
        /\ {merged[k].suggested_name : k \in 1..Len(merged)}
               = {input[k].suggested_name : k \in 1..Len(input)}
        /\ \A j, k \in 1..Len(merged) :
               j < k => /\ merged[j].suggested_name # merged[k].suggested_name
                        /\ FirstOf(merged[j]) < FirstOf(merged[k])
        /\ \A k \in 1..Len(merged) :
               IF Cardinality(GroupOf(merged[k])) = 1
               THEN merged[k] = input[FirstOf(merged[k])]
               ELSE /\ HasMaxScore(merged[k])
                    /\ Range(merged[k].extent) =
                           UNION {Range(input[g].extent) :
                                     g \in GroupOf(merged[k])}
                    /\ Range(merged[k].intent) =
                           UNION {Range(input[g].intent) :
                                     g \in GroupOf(merged[k])}

\* two candidates with one name, the second with the higher score and
\* other members and features, merged into one candidate
C15_Witness ==
    /\ pc = "deduplicated"
    /\ Len(input) = 2
    /\ input[1].suggested_name = input[2].suggested_name
    /\ score_less(input[1].relevance_score, input[2].relevance_score)
    /\ Range(input[1].extent) # Range(input[2].extent)
    /\ Len(merged) = 1
    /\ merged[1].relevance_score = input[2].relevance_score
    /\ Cardinality(Range(merged[1].extent)) = 2

\* the positions of the lines of ls equal to line
LinesEqual(ls, line) == {i \in 1..Len(ls) : ls[i] = line}

\* the lines after position i, up to the next line closer
BodyAfter(ls, i, closer) ==
    Take(Drop(ls, i), SpanNot(Drop(ls, i), {closer}))

\* the features that the merged candidates listing the entity give it
InheritedBy(name) ==
    UNION {Range(merged[k].intent) :
              k \in {j \in 1..Len(merged) : name \in Range(merged[j].extent)}}

\* the features entity e keeps, attributes before methods
KeptFeatures(e) ==
    SelectSeq(e.attributes \o e.methods, LAMBDA f : f \notin InheritedBy(e.name))

OpensClass(e) == <<"c","l","a","s","s"," ">> \o e.name \o <<" ", "{">>

\* the one block of entity e lists the features it keeps
OneBlock(ls, e) ==
    /\ Cardinality(LinesEqual(ls, OpensClass(e))) = 1
    /\ \A i \in LinesEqual(ls, OpensClass(e)) :
           BodyAfter(ls, i, <<"}">>) = indented(KeptFeatures(e))

\* C19: in the generated diagram every entity of the input has exactly one
\* regular block, which lists, in their order, exactly the attributes and
\* methods of the entity that are not in the union of the intents of the
\* merged candidates whose extent contains the entity; an entity in no
\* extent keeps all its features.
C19_BlockKeepsOwnFeatures ==
    pc = "generated" =>
        \A k \in 1..Len(classes) : OneBlock(output_lines, classes[k])

\* a generated diagram in which an entity in two extents lost an attribute
\* and a method, and an entity in no extent kept its features
C19_Witness ==
    /\ pc = "generated"
    /\ \E k \in 1..Len(classes) :
           /\ Len(KeptFeatures(classes[k]))
                  < Len(classes[k].attributes) + Len(classes[k].methods)
           /\ \E f \in Range(classes[k].methods) :
                  f \in InheritedBy(classes[k].name)
           /\ \E f \in Range(classes[k].attributes) :
                  f \in InheritedBy(classes[k].name)
    /\ \E k \in 1..Len(classes) :
           /\ InheritedBy(classes[k].name) = {}
           /\ classes[k].attributes \o classes[k].methods # <<>>
           /\ LinesEqual(output_lines, OpensClass(classes[k])) # {}

OpensAbstract(m) == <<"a","b","s","t","r","a","c","t"," ","c","l","a","s","s"," ">> \o m.suggested_name \o <<" ", "{">>

\* the lines of ls after the line header, up to the next empty line
Part(ls, header) ==
    BodyAfter(ls, CHOOSE i \in LinesEqual(ls, header) : TRUE, <<>>)

\* the pairs of a merged candidate and a member of its extent
InheritancePairs ==
    UNION {{<<k, j>> : j \in 1..Len(merged[k].extent)} :
              k \in 1..Len(merged)}

InheritanceLine(p) ==
    merged[p[1]].extent[p[2]] \o <<" ","-","-","|",">"," ">> \o merged[p[1]].suggested_name

\* C20: the generated diagram has exactly one abstract block per merged
\* candidate, listing exactly the features of its intent; its part of
\* generated inheritance lines has exactly one line
\* "<member> --|> <candidate name>" for every pair of a candidate and a
\* member of its extent and no other line; and after it come the original
\* relationships, each exactly once, in declaration order.
C20_AbstractBlocksAndLines ==
    pc = "generated" =>
        /\ \A k \in 1..Len(merged) :
               /\ Cardinality(LinesEqual(output_lines,
                                         OpensAbstract(merged[k]))) = 1
               /\ \A i \in LinesEqual(output_lines, OpensAbstract(merged[k])) :
                      BodyAfter(output_lines, i, <<"}">>)
                          = indented(merged[k].intent)
        /\ Cardinality({i \in 1..Len(output_lines) :
               StartsWith(output_lines[i], <<"a","b","s","t","r","a","c","t"," ">>)})
               = Len(merged)
        /\ \A p \in InheritancePairs :
               Cardinality(LinesEqual(Part(output_lines, H_Inheritance),
                                      InheritanceLine(p))) = 1
        /\ Len(Part(output_lines, H_Inheritance))
               = Cardinality(InheritancePairs)
        /\ Cardinality(LinesEqual(output_lines, H_Inheritance)) = 1
        /\ Cardinality(LinesEqual(output_lines, H_Relationships)) = 1
        /\ \A i \in LinesEqual(output_lines, H_Inheritance) :
           \A j \in LinesEqual(output_lines, H_Relationships) : i < j
        /\ Part(output_lines, H_Relationships)
               = [k \in 1..Len(relationships) |->
                     generate_relationship(relationships[k])]

\* a generated diagram with a merged candidate of two members, an
\* inheritance line for each of them, and three original relationships
C20_Witness ==
    /\ pc = "generated"
    /\ Len(relationships) = 3
    /\ \E k \in 1..Len(merged) :
           /\ Len(merged[k].extent) = 2
           /\ Len(merged[k].intent) = 3
           /\ Cardinality(GroupOf(merged[k])) = 2
           /\ \A j \in 1..2 :
                  LinesEqual(output_lines, InheritanceLine(<<k, j>>)) # {}

(***************************************************************************)
(* UMLEnhancementPipeline.run(), steps 7 to 10                             *)
(***************************************************************************)

\* what the external naming call may do in a run
RunOutcomes == {Raises, Responds(<<"a","n","i","m","a","l">>)}

\* LLMNamingService.batch_name_abstract_classes with the outcome of the
\* external call given per candidate
batch_name_abstract_classes(svc, acs, outcomes) ==
    [k \in 1..Len(acs) |-> name_abstract_class(svc, acs[k], outcomes[k])]

\* LLMNamingService.export_named_classes: the entries of the file
export_named_classes(acs) ==
    [k \in 1..Len(acs) |->
        [name |-> acs[k].suggested_name, extent |-> acs[k].extent,
         intent |-> acs[k].intent, confidence |-> acs[k].confidence]]

\* the naming reaches the run: the candidates are the objects of the given
\* list, the export is written and counted in the summary
Named(named) ==
    /\ named_classes' = named
    /\ abstract_classes' = named
    /\ exported' = export_named_classes(named)
    /\ results' = [results EXCEPT !.abstract_classes_count = Len(named)]

\* Step 7: _step_name_abstract_classes and export_named_classes
StepName ==
    /\ pc = "step7"
    /\ \E outcomes \in [1..Len(abstract_classes) -> RunOutcomes] :
           Named(batch_name_abstract_classes(service, abstract_classes,
                                             outcomes))
    /\ pc' = "step8"
    /\ UNCHANGED <<exc, input, lines, idx, current_class, classes,
                   relationships, graph, context_file, tool, concepts,
                   config, relevant, service, merged, output_lines,
                   evaluations, evaluation_csv, run_no>>

\* Step 8: _step_generate_diagram
StepGenerate ==
    /\ pc = "step8"
    /\ \E result \in deduplicate_abstract_class_names(named_classes) :
           /\ Merged(result)
           /\ output_lines' = generated_lines(result, classes, relationships)
    /\ pc' = "step9"
    /\ UNCHANGED <<eval_vars, exc, input, lines, idx, current_class, classes,
                   relationships, graph, context_file, tool, concepts,
                   config, relevant, service>>

\* concept_map.get(frozenset(extent)): the relevant concepts with this
\* extent, of which the dict keeps the last one
fca_concepts_of(cs, extent) ==
    SelectSeq(cs, LAMBDA c : c.extent = Range(extent))

\* ConceptEvaluator.evaluate_concept: the fields of the ConceptEvaluation
\* that are copied from the candidate and from its concept; found holds
\* the concepts of the extent, none when fca_concept is None
evaluate_concept(ac, run, k, found) ==
    [id_concept |-> [run |-> run, idx |-> k],
     concept_name |-> ac.suggested_name,
     extent |-> ac.extent,
     intent |-> ac.intent,
     relevance_score |-> IF found = <<>> THEN Zero
                         ELSE found[Len(found)].relevance_score,
     confidence |-> ac.confidence]

\* _step_evaluate_concepts: the evaluations appended by one run
step_evaluate_concepts(named, fca_concepts, run) ==
    [k \in 1..Len(named) |->
        evaluate_concept(named[k], run, k,
                         fca_concepts_of(fca_concepts, named[k].extent))]

\* Step 9: _step_evaluate_concepts, export_evaluation_csv and
\* export_simple_csv, which write every evaluation of the evaluator
StepEvaluate ==
    /\ pc = "step9"
    /\ evaluations' =
           evaluations \o step_evaluate_concepts(named_classes, relevant,
                                                 run_no)
    /\ evaluation_csv' = evaluations'
    /\ results' = [results EXCEPT !.concepts_evaluated = Len(named_classes)]
    /\ pc' = "step10"
    /\ UNCHANGED <<exc, input, lines, idx, current_class, classes,
                   relationships, graph, context_file, tool, concepts,
                   synth_vars, exported, run_no>>

\* Step 10: generate_comparison_report; run() returns the summary
StepReport ==
    /\ pc = "step10"
    /\ pc' = "done"
    /\ UNCHANGED <<exc, input, lines, idx, current_class, classes,
                   relationships, later_vars>>

(***************************************************************************)
(* UMLEnhancementPipeline.run() as a whole                                 *)
(***************************************************************************)

Next ==
    \/ StepParse
    \/ StepBuildGraph
    \/ StepExport
    \/ StepFca
    \/ StepFilter
    \/ StepCreate
    \/ StepExpand
    \/ StepName
    \/ StepGenerate
    \/ StepEvaluate
    \/ StepReport

Spec == Init /\ [][Next]_vars

(***************************************************************************)
(* run() called again on the same UMLEnhancementPipeline                   *)
(***************************************************************************)

MaxRuns == 2

Block_(name, members) == [kind |-> "class", name |-> name, members |-> members]

\* the diagrams given to the runs: no relationship lines
RunsDiagrams == {
    [blocks |-> << Block_(<<"A">>, <<<<"+","x">>>>), Block_(<<"B">>, <<<<"+","x">>, <<"-","f","(",")">>>>),
                   Block_(<<"C">>, <<<<"-","f","(",")">>>>) >>,
     rels |-> <<>>],
    [blocks |-> << Block_(<<"B">>, <<<<"+","x">>>>), Block_(<<"$","C">>, <<<<"+","x">>>>) >>,
     rels |-> <<>>],
    [blocks |-> << Block_(<<"$","C">>, <<<<"-","f","(",")">>>>) >>, rels |-> <<>>]}

\* a pipeline whose naming service has a client
InitRuns ==
    /\ input \in RunsDiagrams
    /\ lines = RenderBlocks(input.blocks \o input.rels)
    /\ pc = "step1"
    /\ exc = "none"
    /\ idx = 0
    /\ current_class = None
    /\ classes = <<>>
    /\ relationships = <<>>
    /\ graph = EmptyGraph
    /\ context_file = EmptyFile
    /\ tool = NotRun
    /\ concepts = <<>>
    /\ config = DefaultConfig
    /\ relevant = <<>>
    /\ abstract_classes = <<>>
    /\ service = [provider |-> "openai", client |-> TRUE]
    /\ named_classes = <<>>
    /\ merged = <<>>
    /\ output_lines = <<>>
    /\ EvalInit

\* run() is called once more, after the run before returned or raised: the
\* components keep their fields, run() starts a new summary
RunAgain ==
    /\ pc \in {"done", "raised"}
    /\ run_no < MaxRuns
    /\ run_no' = run_no + 1
    /\ input' \in RunsDiagrams
    /\ lines' = RenderBlocks(input'.blocks \o input'.rels)
    /\ idx' = 0
    /\ pc' = "step1"
    /\ exc' = "none"
    /\ tool' = NotRun
    /\ results' = NoResults
    /\ UNCHANGED <<current_class, classes, relationships, graph, context_file,
                   concepts, synth_vars, exported, evaluations,
                   evaluation_csv>>

NextRuns ==
    \/ StepParse
    \/ StepBuildGraph
    \/ StepExport
    \/ StepFca
    \/ StepFilter
    \/ StepCreate
    \/ StepExpand
    \/ StepName
    \/ StepGenerate
    \/ StepEvaluate
    \/ StepReport
    \/ RunAgain

SpecRuns == InitRuns /\ [][NextRuns]_vars

\* the names of the rows and the columns of the formal context
ContextRows == {context_file.rows[r][1] : r \in 1..Len(context_file.rows)}

ContextColumns == Range(context_file.header) \ {<<>>}

\* C21: the runs of one pipeline share no state: in the second run the
\* formal context has only entities and features of the second diagram, the
\* concepts name only such entities and features, and the evaluation rows
\* exported are those of the second run, as many as its
\* 'concepts_evaluated'.
C21_SecondRunOwnState ==
    run_no = 2 =>
        /\ ContextWritten =>
               /\ ContextRows \subseteq EntityNames
               /\ ContextColumns \subseteq AllFeatures
        /\ (tool # NotRun /\ exc = "none") =>
               \A k \in 1..Len(concepts) :
                   /\ concepts[k].extent \subseteq EntityNames
                   /\ concepts[k].intent \subseteq AllFeatures
        /\ pc \in {"step10", "done"} =>
               /\ Len(evaluation_csv) = results.concepts_evaluated
               /\ \A k \in 1..Len(evaluation_csv) :
                      evaluation_csv[k].id_concept.run = 2

(***************************************************************************)
(* parse() on class blocks whose bodies hold any kind of line              *)
(***************************************************************************)

\* lines of a class body: two members, a member that holds a symbol, a
\* line with a symbol and no visibility marker, a line with neither
BodyLines == {
    <<"+","x">>,
    <<"-","f","(",")">>,
    <<"-","-"," ","n","o","t","e">>,
    <<"B"," ","-","-",">"," ","C">>,
    <<"n","o","t","e">> }

\* lines outside a block: a relationship, plain text, a member line with no
\* block around it, a closing brace with no block to close
LooseLines == {
    <<"A"," ","-","-",">"," ","B">>,
    <<"h","e","l","l","o">>,
    <<"+","x">>,
    <<"}">> }

BodyBlocks ==
    [kind : {"class"}, name : ClassNames,
     members : SeqsUpTo(BodyLines, MaxMembers)]
    \cup [kind : {"line"}, text : LooseLines]

\* where each rendered line of a block stands
BlockPlaces(b) ==
    IF b.kind = "class"
    THEN <<"open">> \o [k \in 1..Len(b.members) |-> "body"] \o <<"close">>
    ELSE <<"outside">>

RECURSIVE Places(_)
Places(bs) ==
    IF bs = <<>> THEN <<>> ELSE BlockPlaces(Head(bs)) \o Places(Tail(bs))

InitBody ==
    /\ input \in SeqsUpTo(BodyBlocks, MaxBlocks)
    /\ lines = RenderBlocks(input)
    /\ pc = "parse"
    /\ exc = "none"
    /\ idx = 0
    /\ current_class = None
    /\ classes = <<>>
    /\ relationships = <<>>
    /\ LaterInit

SpecBody == InitBody /\ [][NextParse]_vars

HasSymbol(line) == \E k \in 1..Len(RelTable) : Contains(line, RelTable[k].symbol)

\* the line that the next iteration reads stands at place p
Reads(p) == pc = "parse" /\ idx < Len(lines) /\ Places(input)[idx + 1] = p

\* C23: only lines outside a class block are tested against the symbol
\* table: a line of a class body never adds a Relationship, with or without
\* a visibility marker, and a line outside any block that holds no symbol
\* changes neither the entities nor the relationships.
C23_OnlyOuterLinesAreRelationships ==
    [][/\ Reads("body") => relationships' = relationships
       /\ (Reads("outside") /\ ~HasSymbol(lines[idx + 1])) =>
              (classes' = classes /\ relationships' = relationships)]_vars

(***************************************************************************)
(* _parse_fca_xml_output on lattices with any upper-cover links            *)
(***************************************************************************)

MaxCovers == 2      \* upper-cover references of one concept

ConceptIds == << <<"1">>, <<"2">>, <<"3">> >>

\* an id that no concept of the file carries
UnknownId == <<"9">>

\* the one own member and the one attribute that concept k may carry
OwnObject(k) == <<"O">> \o ConceptIds[k]

OwnAttribute(k) == <<"f">> \o ConceptIds[k]

\* the reference lists of at most MaxCovers ids, known or not
CoverLists ==
    {Sorted(S) : S \in {T \in SUBSET (Range(ConceptIds) \cup {UnknownId}) :
                           Cardinality(T) <= MaxCovers}}

\* the <Concept> elements of a lattice file: concept k with or without its
\* own member, with its attribute and with any reference list
LatticeFiles ==
    {[k \in 1..Len(ConceptIds) |->
         [id |-> ConceptIds[k],
          extent |-> IF own[k] THEN {OwnObject(k)} ELSE {},
          intent |-> {OwnAttribute(k)},
          upper_covers |-> covers[k]]] :
        own \in [1..Len(ConceptIds) -> BOOLEAN],
        covers \in [1..Len(ConceptIds) -> CoverLists]}

\* the tool has exited with 0 and left a lattice file
InitLattice ==
    /\ tool \in [mode : {"ok"},
                 output : [kind : {"xml"}, elems : LatticeFiles]]
    /\ pc = "step4"
    /\ exc = "none"
    /\ input = <<>>
    /\ lines = <<>>
    /\ idx = 0
    /\ current_class = None
    /\ classes = <<>>
    /\ relationships = <<>>
    /\ graph = EmptyGraph
    /\ context_file = EmptyFile
    /\ concepts = <<>>
    /\ SynthInit
    /\ EvalInit

\* analyze() from the point where the subprocess has returned
ParseOutput ==
    /\ pc = "step4"
    /\ RunAnalyzed(analyze(context_file, tool))
    /\ UNCHANGED <<input, lines, idx, current_class, classes, relationships,
                   graph, context_file, tool, synth_vars, eval_vars>>

SpecLattice == InitLattice /\ [][ParseOutput]_vars

\* the ids from which an id of S is reached along upper-cover links, and S
RECURSIVE Below(_, _)
Below(cm, S) ==
    LET T == S \cup {cm[k].id : k \in {q \in 1..Len(cm) :
                                          Range(cm[q].upper_covers) \cap S # {}}}
    IN IF T = S THEN S ELSE Below(cm, T)

\* the own members of a concept and of all its descendants
MembersBelow(cm, cid) ==
    UNION {cm[k].extent : k \in {q \in 1..Len(cm) : cm[q].id \in Below(cm, {cid})}}

\* the analyzer holds a concept of this intent with this extent
HasConcept(extent, intent) ==
    \E j \in 1..Len(concepts) :
        concepts[j].intent = intent /\ concepts[j].extent = extent

HasIntent(intent) == \E j \in 1..Len(concepts) : concepts[j].intent = intent

\* what the third pass makes of an entry whose members are inferred
InferredRight(cm, k) ==
    IF Cardinality(MembersBelow(cm, cm[k].id)) >= 2
    THEN HasConcept(MembersBelow(cm, cm[k].id), cm[k].intent)
    ELSE ~HasIntent(cm[k].intent)

LatticeParsed == pc = "step5" /\ tool.mode = "ok" /\ tool.output.kind = "xml"

\* C24: extent inference ends on every lattice file, also with cycles and
\* unknown ids among the upper-cover links, and a concept with no own
\* member and a non-empty intent gets exactly the own members of all its
\* descendants, those reached along several paths included (the parser
\* then keeps it when they are two or more).
C24_InferenceIsUnionOfDescendants ==
    LatticeParsed =>
        \A k \in 1..Len(tool.output.elems) :
            (tool.output.elems[k].extent = {}
                 /\ tool.output.elems[k].intent # {})
                => InferredRight(first_pass(<<>>, tool.output.elems), k)

\* concept 1 has no own member; 1 and 2 cover each other, 2 refers to an
\* unknown id, 3 lies below 1 directly and through 2
C24_Witness ==
    /\ LatticeParsed
    /\ tool.output.elems[1].extent = {}
    /\ tool.output.elems[1].upper_covers = << ConceptIds[2] >>
    /\ tool.output.elems[2].upper_covers = << ConceptIds[1], UnknownId >>
    /\ tool.output.elems[3].upper_covers = << ConceptIds[1], ConceptIds[2] >>
    /\ HasConcept({OwnObject(2), OwnObject(3)}, {OwnAttribute(1)})

(***************************************************************************)
(* run() on a pipeline configured with any thresholds                      *)
(***************************************************************************)

\* PipelineConfig(min_relevance=..., min_extent_size=...)
RunConfigs ==
    {DefaultConfig,
     [min_relevance |-> 0, min_extent_size |-> 0],
     [min_relevance |-> 100, min_extent_size |-> 1]}

InitThresholds ==
    /\ input \in Diagrams
    /\ lines = RenderBlocks(input.blocks \o input.rels)
    /\ pc = "step1"
    /\ exc = "none"
    /\ idx = 0
    /\ current_class = None
    /\ classes = <<>>
    /\ relationships = <<>>
    /\ graph = EmptyGraph
    /\ context_file = EmptyFile
    /\ tool = NotRun
    /\ concepts = <<>>
    /\ config \in RunConfigs
    /\ relevant = <<>>
    /\ abstract_classes = <<>>
    /\ service = DefaultService
    /\ named_classes = <<>>
    /\ merged = <<>>
    /\ output_lines = <<>>
    /\ EvalInit

SpecThresholds == InitThresholds /\ [][Next]_vars

\* the lattice file holds a concept of two or more members and no attribute
FileHasEmptyIntent ==
    /\ tool.mode = "ok"
    /\ tool.output.kind = "xml"
    /\ \E k \in 1..Len(tool.output.elems) :
           /\ tool.output.elems[k].intent = {}
           /\ Cardinality(tool.output.elems[k].extent) >= 2

\* C25: in a run every concept that analyze() returns has a non-empty
\* extent and a non-empty intent, so no candidate with an empty intent gets
\* to extent expansion, whatever min_relevance and min_extent_size are.
C25_NoEmptyIntentReachesExpansion ==
    /\ \A k \in 1..Len(concepts) :
           concepts[k].extent # {} /\ concepts[k].intent # {}
    /\ \A k \in 1..Len(abstract_classes) : abstract_classes[k].intent # <<>>

\* the extents of a run with both thresholds at 0 have been expanded after
\* the tool reported a concept without attributes
C25_Witness ==
    /\ FileHasEmptyIntent
    /\ config = [min_relevance |-> 0, min_extent_size |-> 0]
    /\ pc = "step7"
    /\ abstract_classes # <<>>

(***************************************************************************)
(* Properties of the diagram and of the other outputs of a run             *)
(***************************************************************************)

\* the diagram of the current run has been written
DiagramWritten == pc \in {"step9", "step10", "done"}

\* the entities of the diagram that inherit from merged candidate k
Heirs(k) == Range(merged[k].extent) \cap EntityNames

\* C26: in the emitted diagram every entity that inherits from an abstract
\* class declared every feature of that class itself: for each merged
\* candidate and each known entity of its extent, the intent is a subset of
\* the entity's attributes and methods.
C26_HeirsDeclareIntent ==
    DiagramWritten =>
        \A k \in 1..Len(merged) :
            \A e \in Heirs(k) :
                Range(merged[k].intent) \subseteq EntityFeatures(Entity(e))

\* the diagram lists feature f in the block opened by the line opener
ListedUnder(opener, f) ==
    \E i \in LinesEqual(output_lines, opener) :
        (<<" ", " ">> \o f) \in Range(BodyAfter(output_lines, i, <<"}">>))

\* the diagram lists f in the block of an abstract class from which it
\* lets entity e inherit
ListedInParent(e, f) ==
    \E k \in 1..Len(merged) :
        /\ LinesEqual(output_lines,
                      e.name \o <<" ","-","-","|",">"," ">>
                             \o merged[k].suggested_name) # {}
        /\ ListedUnder(OpensAbstract(merged[k]), f)

\* C27: generation loses no feature: every attribute and method of every
\* original entity is listed in the entity's own block or in the block of
\* an abstract class for which the diagram has an inheritance line from
\* that entity.
C27_NoFeatureLost ==
    pc = "generated" =>
        \A k \in 1..Len(classes) :
            \A f \in EntityFeatures(classes[k]) :
                \/ ListedUnder(OpensClass(classes[k]), f)
                \/ ListedInParent(classes[k], f)

\* a generated diagram in which one entity has a feature only in its parent
\* and another feature only in its own block
C27_Witness ==
    /\ pc = "generated"
    /\ \E k \in 1..Len(classes) :
           /\ \E f \in EntityFeatures(classes[k]) :
                  /\ ~ListedUnder(OpensClass(classes[k]), f)
                  /\ ListedInParent(classes[k], f)
           /\ \E f \in EntityFeatures(classes[k]) :
                  /\ ListedUnder(OpensClass(classes[k]), f)
                  /\ ~ListedInParent(classes[k], f)

(***************************************************************************)
(* A relationship line parsed and emitted again                            *)
(***************************************************************************)

\* the symbols with a triangle or a diamond at their right end, at their
\* left end
DecoratedRight == {<<"-","-","|",">">>, <<"-","-","*">>, <<"-","-","o">>}

DecoratedLeft == {<<"<","|","-","-">>, <<"*","-","-">>, <<"o","-","-">>}

\* lines NAME ["card"] symbol ["card"] NAME [: label] with a decorated symbol
RoundInputs ==
    {r \in RelInputs :
        /\ r.kind = "form"
        /\ r.symbol \in DecoratedRight \cup DecoratedLeft
        /\ r.right \in LeftNames}

InitRound ==
    /\ input \in RoundInputs
    /\ lines = <<RenderRel(input)>>
    /\ pc = "parse"
    /\ exc = "none"
    /\ idx = 0
    /\ current_class = None
    /\ classes = <<>>
    /\ relationships = <<>>
    /\ LaterInit

\* generator.generate() on the parsed diagram, without abstract classes
Emit ==
    /\ pc = "parsed"
    /\ merged' = <<>>
    /\ output_lines' = generated_lines(<<>>, classes, relationships)
    /\ pc' = "emitted"
    /\ UNCHANGED <<eval_vars, exc, input, lines, idx, current_class, classes,
                   relationships, graph, context_file, tool, concepts,
                   config, relevant, abstract_classes, service,
                   named_classes>>

NextRound == ParseLine \/ ParseReturn \/ Emit

SpecRound == InitRound /\ [][NextRound]_vars

\* the position of the decorated symbol among the tokens of a line
SymbolAt(toks) ==
    CHOOSE k \in 1..Len(toks) : toks[k] \in DecoratedRight \cup DecoratedLeft

\* the name that follows token k, after a quoted cardinality if there is one
NameAfter(toks, k) ==
    IF StartsWith(toks[k + 1], <<Quote>>) THEN toks[k + 2] ELSE toks[k + 1]

\* the entity at the decorated end of a relationship line
DecoratedEnd(toks) ==
    IF toks[SymbolAt(toks)] \in DecoratedRight
    THEN NameAfter(toks, SymbolAt(toks)) ELSE toks[1]

\* the relationship lines of the emitted diagram
EmittedRelationships == Part(output_lines, H_Relationships)

\* C28: parsing a relationship line and emitting it again keeps its
\* orientation: the entity at the decorated end (triangle or diamond) of
\* the original line is at the decorated end of the emitted line, for each
\* of the forms --|>, <|--, --*, *--, --o, o--.
C28_OrientationPreserved ==
    pc = "emitted" =>
        /\ Len(EmittedRelationships) = 1
        /\ DecoratedEnd(SplitWS(EmittedRelationships[1]))
               = DecoratedEnd(SplitWS(lines[1]))

(***************************************************************************)
(* A Relationship emitted and parsed again                                 *)
(***************************************************************************)

EmitNames == {<<"X">>, <<"Y","o">>, <<"B","_","2">>, <<"o","B">>}

EmitKinds == {"inheritance", "composition", "aggregation", "association"}

EmitCardinalities == {None, <<"1">>, <<"0",".",".","*">>, <<"*">>}

\* labels without a relationship symbol; one holds a colon
EmitLabels == {None, <<"u","s","e","s">>, <<"h","a","s"," ","m","a","n","y">>, <<"o","w","n","s"," ",":"," ","a","l","l">>}

EmitInputs ==
    {Relationship_(s, t, k, cs, ct, lab) :
        s \in EmitNames, t \in EmitNames, k \in EmitKinds,
        cs \in EmitCardinalities, ct \in EmitCardinalities,
        lab \in EmitLabels}

\* generate() is called with one relationship, no class, no candidate
InitEmit ==
    /\ input \in EmitInputs
    /\ relationships = <<input>>
    /\ classes = <<>>
    /\ lines = <<>>
    /\ pc = "generator"
    /\ exc = "none"
    /\ idx = 0
    /\ current_class = None
    /\ LaterInit

\* generator.generate(): the file is the text handed to the parser next
EmitFile ==
    /\ pc = "generator"
    /\ merged' = <<>>
    /\ output_lines' = generated_lines(<<>>, classes, relationships)
    /\ lines' = output_lines'
    /\ pc' = "emitted"
    /\ UNCHANGED <<eval_vars, exc, input, idx, current_class, classes,
                   relationships, graph, context_file, tool, concepts,
                   config, relevant, abstract_classes, service,
                   named_classes>>

\* parser.parse() on the emitted file
Reparse ==
    /\ pc = "emitted"
    /\ ParserBecomes(parse_lines(ParserInit, lines))
    /\ idx' = Len(lines)
    /\ UNCHANGED <<input, lines, later_vars>>

NextEmit == EmitFile \/ Reparse \/ ParseReturn

SpecEmit == InitEmit /\ [][NextEmit]_vars

AbstractBlocks ==
    Cardinality({i \in 1..Len(output_lines) :
        StartsWith(output_lines[i], <<"a","b","s","t","r","a","c","t"," ","c","l","a","s","s"," ">>)})

\* the entities from which the diagram has an inheritance line to name
ChildrenOf(name) ==
    {e \in EntityNames \cup UNION {Range(merged[k].extent) : k \in 1..Len(merged)} :
        LinesEqual(output_lines, e \o <<" ","-","-","|",">"," ">> \o name) # {}}

\* the diagram has a block of that name with these features and these heirs
BlockIs(name, extent, intent) ==
    /\ \E i \in LinesEqual(output_lines, <<"a","b","s","t","r","a","c","t"," ","c","l","a","s","s"," ">> \o name \o <<" ", "{">>) :
           Range(BodyAfter(output_lines, i, <<"}">>)) = Range(indented(intent))
    /\ ChildrenOf(name) = Range(extent)

\* the evaluations made in the current run
OwnEvaluations == SelectSeq(evaluations, LAMBDA ev : ev.id_concept.run = run_no)

RunEvaluated == pc \in {"step10", "done"}

\* C30: all outputs of one run describe the same abstractions: the count of
\* the summary, the number of entries of the named export and the number of
\* concepts evaluated each equal the number of abstract blocks of the
\* diagram, and each exported or evaluated abstraction has the extent and
\* the intent of the block of its name, also after a merge of candidates
\* with one name.
C30_OutputsAgree ==
    RunEvaluated =>
        /\ results.abstract_classes_count = AbstractBlocks
        /\ Len(exported) = AbstractBlocks
        /\ results.concepts_evaluated = AbstractBlocks
        /\ \A k \in 1..Len(exported) :
               BlockIs(exported[k].name, exported[k].extent, exported[k].intent)
        /\ \A k \in 1..Len(OwnEvaluations) :
               BlockIs(OwnEvaluations[k].concept_name,
                       OwnEvaluations[k].extent, OwnEvaluations[k].intent)

====
